---------------------------- MODULE DeviceModel ----------------------------
(***************************************************************************)
(* The life of a device in the driver model (drivers/core/device.c,        *)
(* device-remove.c, uclass.c): bind, probe, remove and unbind over a tree  *)
(* of devices.  The functions call each other and themselves: a device     *)
(* probes its parent, a bus may probe its children from its own probe()    *)
(* method, a failed probe removes.  The calls in progress are kept on a    *)
(* stack of frames, so that every such nesting and a failure of every step *)
(* are covered.                                                            *)
(***************************************************************************)
EXTENDS Integers, Sequences, FiniteSets

CONSTANTS Devices,
          Root,        \* dm_root()
          Parent,      \* Parent[d]: the parent of a device other than Root
          Dma,         \* devices marked DM_FLAG_ACTIVE_DMA
          Vital,       \* devices marked DM_FLAG_VITAL
          Configs      \* see Config

\* The steps that may fail: allocation and of_to_plat() ("plat"), the steps
\* before drv->probe() ("prepare"), drv->probe() ("probe"), the uclass after it
\* ("post"), the events ("notify"), uclass_pre_remove() and drv->remove()
\* ("remove"), the steps of bind ("bind"), drv->unbind() and the uclass before
\* unbind ("unbind").
Steps == {"plat", "prepare", "probe", "post", "notify", "remove", "bind", "unbind"}

\* "normal": DM_REMOVE_NORMAL; "nonvital": DM_REMOVE_NON_VITAL; "dma":
\* DM_REMOVE_ACTIVE_DMA; "both": the last two.
Flags == {"normal", "nonvital", "dma", "both"}

\* fails: the steps that fail.  early: a device may probe one below it from the
\* pinctrl call; bus: drv->probe() probes children; family: drv->bind() binds
\* children.  flags: the flags device_remove() is called with.
Config == [fails : SUBSET Steps, early : BOOLEAN, bus : BOOLEAN, family : BOOLEAN,
           flags : SUBSET Flags]

VARIABLES conf,
          dev,       \* dev[d]: the struct udevice, see Absent
          stack,     \* the calls in progress, the innermost first
          ret,       \* what the last call returned
          last       \* history: the last call from outside, see Outer

vars == <<conf, dev, stack, ret, last>>

Nobody == "nobody"
ParentOf(d) == IF d = Root THEN Nobody ELSE Parent[d]
Children(d) == {c \in Devices : ParentOf(c) = d}
Depth == Cardinality(Devices)

\* A device that is not there.  linked: it is in the list of its parent and of
\* its uclass; bound, active, plat: DM_FLAG_BOUND, DM_FLAG_ACTIVATED and
\* DM_FLAG_PLATDATA_VALID (with the private memory); started (history): the
\* driver's probe() succeeded and its remove() did not since.
Absent == [linked |-> FALSE, bound |-> FALSE, active |-> FALSE, plat |-> FALSE,
           started |-> FALSE]

Frame(op, d, flags) ==
  [op |-> op, dev |-> d, flags |-> flags, pc |-> "enter", todo |-> {}, res |-> "ok"]

\* whole: every active device had an active parent when the call was made.
Outer(op, d, flags) ==
  [op |-> op, dev |-> d, flags |-> flags,
   whole |-> \A e \in Devices \ {Root} : dev[e].active => dev[Parent[e]].active]

Init ==
  /\ conf \in Configs
  /\ dev = [d \in Devices |->
              IF d = Root THEN [linked |-> TRUE, bound |-> TRUE, active |-> TRUE,
                                plat |-> TRUE, started |-> TRUE]
              ELSE Absent]
  /\ stack = <<>> /\ ret = "ok"
  /\ last = Outer("none", Root, "normal")
-----------------------------------------------------------------------------
\* The innermost call is op and stands at pc.
At(op, pc) == stack # <<>> /\ Head(stack).op = op /\ Head(stack).pc = pc
Me == Head(stack).dev
May(step) == step \in conf.fails

Return(r) == stack' = Tail(stack) /\ ret' = r
Goto(pc, todo) ==
  stack' = [stack EXCEPT ![1].pc = pc, ![1].todo = todo] /\ UNCHANGED ret
Call(op, d, flags, pc, todo) ==
  /\ stack' = <<Frame(op, d, flags), [Head(stack) EXCEPT !.pc = pc, !.todo = todo]>>
              \o Tail(stack)
  /\ UNCHANGED ret

\* A call from outside the driver model
Begin(op, d, flags) ==
  /\ stack = <<>>
  /\ stack' = <<Frame(op, d, flags)>>
  /\ last' = Outer(op, d, flags)
  /\ UNCHANGED <<conf, dev, ret>>

\* device_free()
Freed(v) == [v EXCEPT !.plat = FALSE]
Deactivated(v) == [Freed(v) EXCEPT !.active = FALSE]
-----------------------------------------------------------------------------
\* A device and its ancestors
Ancestry ==
  [d \in Devices |->
     LET up[k \in 0 .. Depth] ==
           IF k = 0 THEN {d}
           ELSE up[k - 1] \cup {e \in Devices : \E c \in up[k - 1] : ParentOf(c) = e} IN
     up[Depth]]

\* a is d or an ancestor of d.
Above(a, d) == a \in Ancestry[d]

\* The devices device_of_to_plat() works on: d and its ancestors up to the first
\* with valid data.
NeedPlat(d) ==
  {e \in Ancestry[d] : \A c \in Ancestry[d] : Above(e, c) => ~dev[c].plat}

\* device_of_to_plat(d): it succeeds from the root down, or fails at a, and the
\* devices from a down are freed.
Filled(d) == [e \in Devices |-> IF e \in NeedPlat(d) THEN [dev[e] EXCEPT !.plat = TRUE] ELSE dev[e]]
FilledTo(d, a) ==
  [e \in Devices |-> IF e \in NeedPlat(d) /\ ~Above(a, e)
                     THEN [dev[e] EXCEPT !.plat = TRUE] ELSE dev[e]]

\* The label "fail" of device_probe()
Fail == dev' = [dev EXCEPT ![Me] = Deactivated(@)] /\ Return("err")

\* device_probe(): the flag, the first event and device_of_to_plat()
ProbeEnter ==
  /\ At("probe", "enter")
  /\ \/ dev[Me].active /\ Return("ok") /\ UNCHANGED dev
     \/ ~dev[Me].active /\ May("notify") /\ Return("err") /\ UNCHANGED dev
     \/ /\ ~dev[Me].active /\ May("plat")
        /\ \E a \in NeedPlat(Me) : dev' = FilledTo(Me, a)
        /\ Return("err")
     \/ /\ ~dev[Me].active
        /\ dev' = Filled(Me)
        /\ IF Me = Root THEN Goto("activate", {})
           ELSE Call("probe", Parent[Me], "normal", "parent", {})
  /\ UNCHANGED <<conf, last>>

\* Mutant: the flag is not tested again.
ProbeParentNoTest ==
  /\ At("probe", "parent")
  /\ \/ ret = "err" /\ Fail
     \/ ret = "ok" /\ Goto("activate", {}) /\ UNCHANGED dev
  /\ UNCHANGED <<conf, last>>

\* Mutant: the error of the parent is not returned.
ProbeParentForgets ==
  /\ At("probe", "parent")
  /\ \/ /\ ret = "err"
        /\ dev' = [dev EXCEPT ![Me] = Deactivated(@)] /\ Return("ok")
     \/ ret = "ok" /\ dev[Me].active /\ Return("ok") /\ UNCHANGED dev
     \/ ret = "ok" /\ ~dev[Me].active /\ Goto("activate", {}) /\ UNCHANGED dev
  /\ UNCHANGED <<conf, last>>

\* The parent has been probed; the flag is tested again.
ProbeParent ==
  /\ At("probe", "parent")
  /\ \/ ret = "err" /\ Fail
     \/ ret = "ok" /\ dev[Me].active /\ Return("ok") /\ UNCHANGED dev
     \/ ret = "ok" /\ ~dev[Me].active /\ Goto("activate", {}) /\ UNCHANGED dev
  /\ UNCHANGED <<conf, last>>

Bound(d) == {c \in Children(d) : dev[c].bound}
BoundBelow(d) == {c \in Devices \ {d} : Above(d, c) /\ dev[c].bound}

\* Mutant: the flag is set after the pinctrl call.
ProbeActivateLate ==
  /\ At("probe", "activate")
  /\ \/ Me # Root /\ May("prepare") /\ Fail
     \/ dev' = [dev EXCEPT ![Me].active = TRUE] /\ Goto("prepare", {})
     \/ /\ Me # Root /\ conf.early
        /\ \E c \in BoundBelow(Me) : Call("probe", c, "normal", "activate", {})
        /\ UNCHANGED dev
  /\ UNCHANGED <<conf, last>>

\* DM_FLAG_ACTIVATED is set, the power domain comes on, and the pinctrl call may
\* probe a child or a device below one; its result does not matter.
ProbeActivate ==
  /\ At("probe", "activate")
  /\ \/ Me # Root /\ May("prepare") /\ Fail
     \/ /\ dev' = [dev EXCEPT ![Me].active = TRUE]
        /\ \/ Goto("prepare", {})
           \/ /\ Me # Root /\ conf.early
              /\ \E c \in BoundBelow(Me) : Call("probe", c, "normal", "prepare", {})
  /\ UNCHANGED <<conf, last>>

\* IOMMU, DMA constraints, uclass_pre_probe_device(), child_pre_probe() and clocks
ProbePrepare ==
  /\ At("probe", "prepare")
  /\ \/ May("prepare") /\ Fail
     \/ Goto("driver", IF Me # Root /\ conf.bus THEN Bound(Me) ELSE {}) /\ UNCHANGED dev
  /\ UNCHANGED <<conf, last>>

\* drv->probe() probes a child.
ProbeChild ==
  /\ At("probe", "driver")
  /\ \E c \in Head(stack).todo :
       Call("probe", c, "normal", "driver", Head(stack).todo \ {c})
  /\ UNCHANGED <<conf, dev, last>>

\* drv->probe() returns, then uclass_post_probe_device() and the last event
ProbeDriver ==
  /\ At("probe", "driver") /\ Head(stack).todo = {}
  /\ \/ May("probe") /\ Fail
     \/ /\ dev' = [dev EXCEPT ![Me].started = TRUE]
        /\ \/ Return("ok")
           \/ May("notify") /\ Return("err")
           \/ May("post") /\ Call("remove", Me, "normal", "undo", {})
  /\ UNCHANGED <<conf, last>>

\* The label "fail_uclass", after device_remove()
ProbeUndo ==
  /\ At("probe", "undo") /\ Fail
  /\ UNCHANGED <<conf, last>>
-----------------------------------------------------------------------------
\* The list of the children of a device
Linked(d) == {c \in Children(d) : dev[c].linked}

\* Mutant: the flags of the DMA hide the vital flag.
FlagsRemoveDma(flags, d) ==
  IF flags \in {"dma", "both"} THEN IF d \in Dma THEN "ok" ELSE "rejected"
  ELSE IF flags = "nonvital" /\ d \in Vital THEN "defer" ELSE "ok"

\* flags_remove()
FlagsRemove(flags, d) ==
  IF flags \in {"nonvital", "both"} /\ d \in Vital THEN "defer"
  ELSE IF flags \in {"dma", "both"} /\ d \notin Dma THEN "rejected"
  ELSE "ok"

\* device_remove(): the flag and the first event
RemoveEnter ==
  /\ At("remove", "enter")
  /\ \/ ~dev[Me].active /\ Return("ok")
     \/ dev[Me].active /\ May("notify") /\ Return("err")
     \/ dev[Me].active /\ Goto("children", Linked(Me))
  /\ UNCHANGED <<conf, dev, last>>

\* Mutant: the list is not advanced.
RemoveChildAgain ==
  /\ At("remove", "children")
  /\ \E c \in Head(stack).todo :
       Call("remove", c, Head(stack).flags, "child", Head(stack).todo)
  /\ UNCHANGED <<conf, dev, last>>

\* device_chld_remove(): the next child is removed with the same flags.
RemoveChild ==
  /\ At("remove", "children")
  /\ \E c \in Head(stack).todo :
       Call("remove", c, Head(stack).flags, "child", Head(stack).todo \ {c})
  /\ UNCHANGED <<conf, dev, last>>

\* Mutant: an error of a child is not looked at.
RemoveChildDoneGoesOn ==
  /\ At("remove", "child")
  /\ stack' = [stack EXCEPT ![1].pc = "children",
                            ![1].res = IF ret = "defer" THEN ret ELSE @]
  /\ UNCHANGED <<conf, dev, ret, last>>

\* Mutant: a child that did not match the flags ends the loop.
RemoveChildDoneStops ==
  /\ At("remove", "child")
  /\ IF ret \in {"err", "rejected"} THEN Return(ret)
     ELSE /\ stack' = [stack EXCEPT ![1].pc = "children",
                                    ![1].res = IF ret = "defer" THEN ret ELSE @]
          /\ UNCHANGED ret
  /\ UNCHANGED <<conf, dev, last>>

\* What device_chld_remove() does with the result of a child
RemoveChildDone ==
  /\ At("remove", "child")
  /\ IF ret = "err" THEN Return("err")
     ELSE /\ stack' = [stack EXCEPT ![1].pc = "children",
                                    ![1].res = IF ret = "defer" THEN ret ELSE @]
          /\ UNCHANGED ret
  /\ UNCHANGED <<conf, dev, last>>

\* Mutant: the driver's memory is freed before its remove() method is called.
RemoveSelfFreed ==
  /\ At("remove", "children") /\ Head(stack).todo = {}
  /\ LET flagged == FlagsRemove(Head(stack).flags, Me) IN
     \/ Head(stack).res = "defer" /\ Return("defer") /\ UNCHANGED dev
     \/ Head(stack).res # "defer" /\ flagged # "ok" /\ Return(flagged) /\ UNCHANGED dev
     \/ /\ Head(stack).res # "defer" /\ flagged = "ok"
        /\ \/ May("remove") /\ Return("err") /\ dev' = [dev EXCEPT ![Me] = Freed(@)]
           \/ /\ dev' = [dev EXCEPT ![Me] = [Deactivated(@) EXCEPT !.started = FALSE]]
              /\ Return("ok") \/ (May("notify") /\ Return("err"))
  /\ UNCHANGED <<conf, last>>

\* The rest of device_remove(): the flags of the driver, uclass_pre_remove_device(),
\* drv->remove(), child_post_remove(), device_free() and the last event
RemoveSelf ==
  /\ At("remove", "children") /\ Head(stack).todo = {}
  /\ LET flagged == FlagsRemove(Head(stack).flags, Me) IN
     \/ Head(stack).res = "defer" /\ Return("defer") /\ UNCHANGED dev
     \/ Head(stack).res # "defer" /\ flagged # "ok" /\ Return(flagged) /\ UNCHANGED dev
     \/ /\ Head(stack).res # "defer" /\ flagged = "ok"
        /\ \/ May("remove") /\ Return("err") /\ UNCHANGED dev
           \/ /\ dev' = [dev EXCEPT ![Me] = [Deactivated(@) EXCEPT !.started = FALSE]]
              /\ Return("ok") \/ (May("notify") /\ Return("err"))
  /\ UNCHANGED <<conf, last>>
-----------------------------------------------------------------------------
\* device_unbind(): the flags and drv->unbind()
UnbindEnter ==
  /\ At("unbind", "enter")
  /\ \/ (dev[Me].active \/ ~dev[Me].bound \/ May("unbind")) /\ Return("err")
     \/ ~dev[Me].active /\ dev[Me].bound /\ Goto("children", Linked(Me))
  /\ UNCHANGED <<conf, dev, last>>

\* device_chld_unbind(): all children are tried, the first error is kept.
UnbindChild ==
  /\ At("unbind", "children")
  /\ \E c \in Head(stack).todo :
       Call("unbind", c, "normal", "child", Head(stack).todo \ {c})
  /\ UNCHANGED <<conf, dev, last>>

UnbindChildDone ==
  /\ At("unbind", "child")
  /\ stack' = [stack EXCEPT ![1].pc = "children",
                            ![1].res = IF ret = "err" THEN ret ELSE @]
  /\ UNCHANGED <<conf, dev, ret, last>>

\* Mutant: an error of a child is not looked at.
UnbindSelfAlways ==
  /\ At("unbind", "children") /\ Head(stack).todo = {}
  /\ \/ May("unbind") /\ Return("err") /\ UNCHANGED dev
     \/ dev' = [dev EXCEPT ![Me] = Absent] /\ Return("ok")
  /\ UNCHANGED <<conf, last>>

\* The rest of device_unbind(): uclass_pre_unbind_device(), the lists, the memory
UnbindSelf ==
  /\ At("unbind", "children") /\ Head(stack).todo = {}
  /\ \/ (Head(stack).res = "err" \/ May("unbind")) /\ Return("err") /\ UNCHANGED dev
     \/ /\ Head(stack).res = "ok"
        /\ dev' = [dev EXCEPT ![Me] = Absent]
        /\ Return("ok")
  /\ UNCHANGED <<conf, last>>
-----------------------------------------------------------------------------
\* device_bind_common() up to drv->bind(): allocation and uclass_bind_device()
\* may fail and are undone.
BindEnter ==
  /\ At("bind", "enter")
  /\ \/ May("bind") /\ Return("err") /\ UNCHANGED dev
     \/ /\ dev' = [dev EXCEPT ![Me].linked = TRUE]
        /\ Goto("children", IF conf.family THEN {c \in Children(Me) : ~dev[c].linked} ELSE {})
  /\ UNCHANGED <<conf, last>>

\* drv->bind() binds a child.
BindChild ==
  /\ At("bind", "children")
  /\ \E c \in Head(stack).todo :
       Call("bind", c, "normal", "children", Head(stack).todo \ {c})
  /\ UNCHANGED <<conf, dev, last>>

\* drv->bind() returns, then child_post_bind() and post_bind().  When one of them
\* fails the device is freed, with no look at its children.
BindSelf ==
  /\ At("bind", "children") /\ Head(stack).todo = {}
  /\ \/ May("bind") /\ dev' = [dev EXCEPT ![Me] = Absent] /\ Return("err")
     \/ dev' = [dev EXCEPT ![Me].bound = TRUE] /\ Return("ok")
  /\ UNCHANGED <<conf, last>>
-----------------------------------------------------------------------------
\* The calls from outside.  The caller has a pointer to a device that is there,
\* or to the parent of the one to be bound.
Outside ==
  \/ \E d \in Devices \ {Root} : ~dev[d].linked /\ dev[Parent[d]].bound /\ Begin("bind", d, "normal")
  \/ \E d \in Devices : dev[d].bound /\ Begin("probe", d, "normal")
  \/ \E d \in Devices, flags \in conf.flags : dev[d].bound /\ Begin("remove", d, flags)
  \/ \E d \in Devices \ {Root} : dev[d].bound /\ Begin("unbind", d, "normal")

Inside ==
  \/ ProbeEnter \/ ProbeParent \/ ProbeActivate \/ ProbePrepare \/ ProbeChild
  \/ ProbeDriver \/ ProbeUndo
  \/ RemoveEnter \/ RemoveChild \/ RemoveChildDone \/ RemoveSelf
  \/ UnbindEnter \/ UnbindChild \/ UnbindChildDone \/ UnbindSelf
  \/ BindEnter \/ BindChild \/ BindSelf

Next == Outside \/ Inside

\* A call that was made goes on.
Spec == Init /\ [][Next]_vars /\ WF_vars(Inside)
-----------------------------------------------------------------------------
Idle == stack = <<>>
Ok(op) == Idle /\ last.op = op /\ ret = "ok"

\* The flags are flags, and the frames on the stack are calls on devices.
TypeOK ==
  /\ conf \in Config
  /\ dev \in [Devices -> [linked : BOOLEAN, bound : BOOLEAN, active : BOOLEAN,
                          plat : BOOLEAN, started : BOOLEAN]]
  /\ ret \in {"ok", "err", "defer", "rejected"}
  /\ \A i \in DOMAIN stack : stack[i].dev \in Devices /\ stack[i].todo \subseteq Children(stack[i].dev)

\* "This works because the DM_FLAG_ACTIVATED flag is set just above": however
\* parents and children probe each other, a device is brought up once at a time.
NoRunaway ==
  /\ TypeOK
  /\ \A d \in Devices :
       Cardinality({i \in DOMAIN stack : /\ stack[i].op = "probe" /\ stack[i].dev = d
                                         /\ stack[i].pc \notin {"enter", "parent"}}) <= 1

\* The builds in which device_probe() undoes what it did: a parent that fails has
\* no children that it (or the pinctrl call) probed, and the removal after a
\* failed uclass_post_probe_device() succeeds.
Undone ==
  /\ (conf.early \/ conf.bus) => conf.fails \cap {"prepare", "probe", "post", "notify"} = {}
  /\ May("post") => conf.fails \cap {"remove", "notify"} = {}

\* The builds in which a device that fails to bind has bound no children.
BoundWhole == ~(conf.family /\ May("bind"))

\* "so that we don't mess up the device": the driver of a device is not probed
\* again while it is started.
ProbedOnce ==
  [][Undone /\ At("probe", "driver") /\ Head(stack).todo = {} => ~dev[Me].started]_vars

\* Where Undone holds, a started driver keeps its private memory and its device
\* stays active, whatever calls come and whatever fails that Undone does not rule
\* out.
StartedKeepsMemory ==
  Undone => \A d \in Devices : dev[d].started => dev[d].active /\ dev[d].plat

\* A device is there as long as one of its children is.
ParentStays ==
  BoundWhole => \A d \in Devices \ {Root} : dev[d].linked => dev[Parent[d]].linked

\* A device is active only as long as its parent is, unless devices are removed
\* by DM_REMOVE_ACTIVE_DMA, where "the child [...] didn't match the flags".
ParentActive ==
  Undone /\ BoundWhole /\ conf.flags \subseteq {"normal", "nonvital"} =>
    \A d \in Devices \ {Root} : dev[d].active => dev[Parent[d]].active

\* A probe that returns 0 leaves the driver of the device and of all its
\* ancestors started; a remove (DM_REMOVE_NORMAL) that returns 0 leaves none of
\* the devices below started.  (When the call was made no active device had an
\* inactive parent.)
ReturnsTruth ==
  Undone /\ BoundWhole /\ last.whole =>
    \A d \in Devices :
      /\ Ok("probe") /\ Above(d, last.dev) => dev[d].started
      /\ Ok("remove") /\ last.flags = "normal" /\ Above(last.dev, d) => ~dev[d].started

\* "Remove non-vital devices first": a removal with DM_REMOVE_NON_VITAL leaves an
\* active vital device and everything above it active, if no active device had an
\* inactive parent when the call was made.
VitalStays ==
  [][Undone /\ BoundWhole /\ last.whole /\ last.op = "remove" /\ last.flags \in {"nonvital", "both"} =>
       \A v \in Vital : \A d \in Devices :
         Above(d, v) /\ dev[v].active /\ dev[d].active => dev'[d].active]_vars

\* After a removal of the root with DM_REMOVE_ACTIVE_DMA no device that does DMA
\* is active, if no driver fails to stop and no active device had an inactive
\* parent when the call was made.
DmaQuiet ==
  Idle /\ last.whole /\ last.op = "remove" /\ last.flags = "dma" /\ last.dev = Root
  /\ conf.fails \cap {"remove", "notify"} = {} =>
    \A d \in Dma : ~dev[d].active

\* Every call returns.
Returns == ~Idle ~> Idle
=============================================================================
