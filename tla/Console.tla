------------------------------ MODULE Console ------------------------------
(***************************************************************************)
(* The console (common/console.c, common/iomux.c): where a character goes  *)
(* from the first message of the boot to the command line.  Characters are *)
(* numbered in the order in which they are printed.  Before                *)
(* console_init_f() they are kept in the pre-console ring; then they go to *)
(* the UART and the ring; from console_init_r() on they go to the devices  *)
(* of stdout.  The environment may make the console silent, and the        *)
(* recorder may keep a copy.  The multiplexed build (CONSOLE_MUX) is       *)
(* modelled, without the debug UART and without GD_FLG_DISABLE_CONSOLE.    *)
(***************************************************************************)
EXTENDS Membuff, FiniteSets

CONSTANTS PreSz,      \* PRE_CON_BUF_SZ
          OutSz, InSz,\* CONSOLE_RECORD_OUT_SIZE, CONSOLE_RECORD_IN_SIZE
          NoDev,      \* tstcdev is NULL
          Configs     \* the builds, and how much each prints, see Config

Devs == {"serial", "video"}       \* outputs; only "serial" is a serial device
Keys == {"serial", "keyboard"}    \* inputs

\* silence: CONFIG_SILENT_CONSOLE is off, on, or on until the environment is
\* loaded; onReloc: SILENT_CONSOLE_UPDATE_ON_RELOC; quiet:
\* SYS_CONSOLE_INFO_QUIET; outs and keys: the devices; test: a test uses the
\* recorder.  At most early characters are printed before console_init_r(), late
\* after it, and fed are put into the recorder.
Config == [silence : {"off", "on", "untilEnv"}, onReloc : BOOLEAN, quiet : BOOLEAN,
           outs : SUBSET Devs, keys : SUBSET Keys, test : BOOLEAN,
           early : Nat, late : Nat, fed : Nat]

VARIABLES conf,
          c,         \* gd and the outputs: see Consoles
          env,       \* "silent" is set in the environment
          ready,     \* GD_FLG_ENV_READY
          stdout,    \* console_devices[stdout]
          n,         \* how many characters were printed
          stdin,     \* console_devices[stdin]
          tstcdev,
          keys,      \* keys[d]: how many characters wait in device d
          in,        \* gd->console_in
          fed,       \* how many characters console_in_puts() accepted
          boot,      \* history: n, silence (and whether it was lifted) and
                     \* outputs at the end of console_init_r()
          allowed,   \* history: an environment without "silent" was loaded or set
          from,      \* history: the last character read back or purged
          taken      \* history: the last character of in read or purged

outVars  == <<c, env, ready, stdout, n, boot, allowed, from>>
inVars   == <<stdin, tstcdev, keys, in, fed, taken>>
vars     == <<conf, outVars, inVars>>

Fresh(size) == Inited(size, [i \in 0 .. size - 1 |-> Unset])
Run(a, b) == [i \in 1 .. b - a + 1 |-> a + i - 1]

Init ==
  /\ conf \in Configs
  /\ c = [have |-> FALSE, devinit |-> FALSE, silent |-> FALSE, idx |-> 0,
          pre |-> [i \in 0 .. PreSz - 1 |-> 0], serial |-> <<>>, video |-> <<>>,
          record |-> FALSE, ovf |-> FALSE, out |-> Fresh(OutSz)]
  /\ env \in (IF conf.silence = "off" THEN {FALSE} ELSE BOOLEAN)
  /\ ready = FALSE /\ allowed = FALSE
  /\ stdout = {} /\ stdin = {} /\ tstcdev = NoDev
  /\ keys = [d \in Keys |-> 0]
  /\ in = Fresh(InSz)
  /\ n = 0 /\ fed = 0 /\ from = 0 /\ taken = 0
  /\ boot = [n |-> 0, silent |-> TRUE, lifted |-> FALSE, to |-> {}]
-----------------------------------------------------------------------------
\* pre_console_puts()
PreConsole(k, s) ==
  IF k.idx < 0 THEN k
  ELSE LET at(i)   == {j \in 1 .. Len(s) : (k.idx + j - 1) % PreSz = i}
           last(i) == CHOOSE j \in at(i) : \A m \in at(i) : m <= j IN
       [k EXCEPT !.pre = [i \in DOMAIN @ |-> IF at(i) = {} THEN @[i] ELSE s[last(i)]],
                 !.idx = @ + Len(s)]

\* console_puts() and console_puts_select() to the devices of D
ToDevices(k, D, s) ==
  [k EXCEPT !.serial = IF "serial" \in D THEN @ \o s ELSE @,
            !.video  = IF "video" \in D THEN @ \o s ELSE @]

\* Mutant: a string that did not fit whole is not noticed.
RecordedQuietly(k, s) ==
  IF ~k.record THEN k ELSE [k EXCEPT !.out = PutIn(k.out, s).b]

\* console_record_puts()
Recorded(k, s) ==
  IF ~k.record \/ ~k.out.start THEN k
  ELSE LET r == PutIn(k.out, s) IN
       [k EXCEPT !.out = r.b, !.ovf = @ \/ r.n # Len(s)]

\* Mutant: a silent console drops the characters.
PutsSilentDrop(k, D, s) ==
  LET r == Recorded(k, s) IN
  IF r.silent THEN r
  ELSE IF ~r.have THEN PreConsole(r, s)
  ELSE IF r.devinit THEN ToDevices(r, D, s)
  ELSE ToDevices(PreConsole(r, s), {"serial"}, s)

\* puts(), and putc() for one character, with stdout going to the devices of D
Puts(k, D, s) ==
  LET r == Recorded(k, s) IN
  IF r.silent THEN (IF r.devinit THEN r ELSE PreConsole(r, s))
  ELSE IF ~r.have THEN PreConsole(r, s)
  ELSE IF r.devinit THEN ToDevices(r, D, s)
  ELSE ToDevices(PreConsole(r, s), {"serial"}, s)

\* Mutant: the last flush goes to every device, as the first does.
FlushAll(k, D, point) ==
  IF k.silent THEN k
  ELSE LET first == IF k.idx > PreSz THEN k.idx - PreSz ELSE 0
           text  == [i \in 1 .. k.idx - first |-> k.pre[(first + i - 1) % PreSz]] IN
       [Puts([k EXCEPT !.idx = -1], D, text) EXCEPT !.idx = k.idx]

\* print_pre_console_buffer(): point is "serial" for FLUSHPOINT1 and "others"
\* for FLUSHPOINT2.  The ring is closed while its own text is printed.
Flush(k, D, point) ==
  IF k.silent THEN k
  ELSE LET first  == IF k.idx > PreSz THEN k.idx - PreSz ELSE 0
           text   == [i \in 1 .. k.idx - first |-> k.pre[(first + i - 1) % PreSz]]
           muted  == [k EXCEPT !.idx = -1]
           output == IF point = "serial" THEN Puts(muted, D, text)
                     ELSE ToDevices(muted, D \ {"serial"}, text) IN
       [output EXCEPT !.idx = k.idx]

\* Mutant: the environment is believed before it was loaded.
UpdateSilentEarly(k) ==
  IF conf.silence = "off" THEN k ELSE [k EXCEPT !.silent = env]

\* console_update_silent()
UpdateSilent(k) ==
  IF conf.silence = "off" THEN k
  ELSE [k EXCEPT !.silent = env \/ (conf.silence = "untilEnv" /\ ~ready)]
-----------------------------------------------------------------------------
\* Something prints len characters.
Output(len) ==
  /\ n + len <= (IF c.devinit THEN boot.n + conf.late ELSE conf.early)
  /\ c' = Puts(c, stdout, Run(n + 1, n + len))
  /\ n' = n + len
  /\ UNCHANGED <<conf, env, ready, stdout, boot, allowed, from, inVars>>

ConsoleInitF ==
  /\ ~c.have
  /\ c' = Flush(UpdateSilent([c EXCEPT !.have = TRUE]), stdout, "serial")
  /\ UNCHANGED <<conf, env, ready, stdout, n, boot, allowed, from, inVars>>

\* initr_env() loads an environment in which "silent" is set or not.  on_silent()
\* runs for a variable that is imported, and not for one that is missing.
LoadEnv(v) ==
  /\ c.have /\ ~ready
  /\ conf.silence = "off" => ~v
  /\ env' = v /\ ready' = TRUE
  /\ allowed' = ~v
  /\ c' = [c EXCEPT !.silent = @ \/ (v /\ conf.onReloc)]
  /\ UNCHANGED <<conf, stdout, n, boot, from, inVars>>

\* console_init_r(): stdout and stdin name the devices of D and S, or the serial
\* device if they name none; the names of the devices are printed before
\* GD_FLG_DEVINIT is set.
ConsoleInitR(D, S) ==
  /\ c.have /\ ready /\ ~c.devinit
  /\ LET k     == UpdateSilent(c)
         point == IF c.silent /\ ~k.silent THEN "serial" ELSE "others"
         info  == IF conf.quiet THEN <<>> ELSE <<n + 1>>
         shown == Puts(k, D, info) IN
     /\ c' = Flush([shown EXCEPT !.devinit = TRUE], D, point)
     /\ n' = n + Len(info)
     /\ boot' = [n |-> n', silent |-> k.silent, lifted |-> point = "serial", to |-> D]
  /\ stdout' = D /\ stdin' = S
  /\ UNCHANGED <<conf, env, ready, allowed, from, tstcdev, keys, in, fed, taken>>

\* "setenv silent" on the command line: on_silent() with H_INTERACTIVE
SetSilent(v) ==
  /\ c.devinit /\ conf.silence # "off" /\ env # v
  /\ env' = v
  /\ allowed' = (allowed \/ ~v)
  /\ c' = [c EXCEPT !.silent = v]
  /\ UNCHANGED <<conf, ready, stdout, n, boot, from, inVars>>

\* iomux_doenv() for "setenv stdout" and "setenv stdin", with the devices that
\* exist and could be started; with none of them the old set stays.
SetStdout(D) ==
  /\ c.devinit
  /\ stdout' = IF D = {} THEN stdout ELSE D
  /\ UNCHANGED <<conf, c, env, ready, n, boot, allowed, from, inVars>>

SetStdin(S) ==
  /\ c.devinit
  /\ stdin' = IF S = {} THEN stdin ELSE S
  /\ UNCHANGED <<conf, outVars, tstcdev, keys, in, fed, taken>>
-----------------------------------------------------------------------------
\* console_record_reset_enable(), and console_record_reset() with record unchanged
RecordReset(enable) ==
  /\ c.devinit /\ conf.test
  /\ c' = [c EXCEPT !.out = Purged(@), !.ovf = FALSE, !.record = @ \/ enable]
  /\ in' = Purged(in)
  /\ from' = n /\ taken' = fed
  /\ UNCHANGED <<conf, env, ready, stdout, n, boot, allowed, stdin, tstcdev, keys, fed>>

\* console_record_readline() with room for maxlen bytes
RecordReadLine(maxlen) ==
  /\ c.record /\ ~c.ovf
  /\ LET r == ReadLineOf(c.out, maxlen) IN
     /\ c' = [c EXCEPT !.out = r.b]
     /\ from' = IF r.line = <<>> THEN from ELSE r.line[Len(r.line)]
  /\ UNCHANGED <<conf, env, ready, stdout, n, boot, allowed, inVars>>

\* console_in_puts() of len characters
InPuts(len) ==
  /\ c.devinit /\ conf.test
  /\ fed + len <= conf.fed
  /\ LET r == PutIn(in, Run(fed + 1, fed + len)) IN in' = r.b /\ fed' = fed + r.n
  /\ UNCHANGED <<conf, outVars, stdin, tstcdev, keys, taken>>

\* A key is pressed.
Key(d) ==
  /\ keys[d] = 0
  /\ keys' = [keys EXCEPT ![d] = 1]
  /\ UNCHANGED <<conf, outVars, stdin, tstcdev, in, fed, taken>>

\* console_record_tstc()
RecordTstc == c.record /\ Content(in) # <<>>

\* console_tstc(): the devices of stdin that have a character waiting.  The loop
\* stops at the first of them, in an order that is not modelled.
Waiting == {d \in stdin : keys[d] > 0}

\* tstc()
Tstc ==
  /\ c.devinit /\ ~RecordTstc
  /\ tstcdev' \in (IF Waiting = {} THEN {tstcdev} ELSE Waiting)
  /\ UNCHANGED <<conf, outVars, stdin, keys, in, fed, taken>>

\* getchar() of recorded input
GetcharRecorded ==
  /\ c.have /\ RecordTstc
  /\ LET r == GetOut(in, 1) IN in' = r.b /\ taken' = r.got[1]
  /\ UNCHANGED <<conf, outVars, stdin, tstcdev, keys, fed>>

\* Mutant: the device that was tested is not forgotten.
GetcharKeep ==
  /\ c.devinit /\ ~RecordTstc
  /\ \E d \in (IF tstcdev # NoDev THEN {tstcdev} ELSE Waiting) :
       keys' = [keys EXCEPT ![d] = 0]
  /\ UNCHANGED <<conf, outVars, stdin, tstcdev, in, fed, taken>>

\* getchar() through fgetc(): the device tstc() found if it was called before,
\* else the first that has a character.  fgetc() waits until there is one.
Getchar ==
  /\ c.devinit /\ ~RecordTstc
  /\ \E d \in (IF tstcdev # NoDev THEN {tstcdev} ELSE Waiting) :
       keys' = [keys EXCEPT ![d] = 0]
  /\ tstcdev' = NoDev
  /\ UNCHANGED <<conf, outVars, stdin, in, fed, taken>>

\* getchar() before the devices are there
GetcharSerial ==
  /\ c.have /\ ~c.devinit
  /\ keys["serial"] > 0
  /\ keys' = [keys EXCEPT !["serial"] = 0]
  /\ UNCHANGED <<conf, outVars, stdin, tstcdev, in, fed, taken>>
-----------------------------------------------------------------------------
Next ==
  \/ \E len \in 1 .. 2 : Output(len)
  \/ ConsoleInitF
  \/ \E v \in BOOLEAN : LoadEnv(v)
  \/ \E D \in SUBSET conf.outs \ {{}}, S \in SUBSET conf.keys :
       (S = {} => conf.keys = {}) /\ ConsoleInitR(D, S)
  \/ \E v \in BOOLEAN : SetSilent(v)
  \/ \E D \in SUBSET conf.outs : SetStdout(D)
  \/ \E S \in SUBSET conf.keys : SetStdin(S)
  \/ \E enable \in BOOLEAN : RecordReset(enable)
  \/ \E maxlen \in {2, OutSz + 1} : RecordReadLine(maxlen)
  \/ \E len \in 1 .. 2 : InPuts(len)
  \/ \E d \in conf.keys : Key(d)
  \/ Tstc
  \/ GetcharRecorded
  \/ Getchar
  \/ GetcharSerial

Spec == Init /\ [][Next]_vars
-----------------------------------------------------------------------------
\* What was printed and shown is a sequence of characters, the ring holds
\* characters, and the recording buffers keep their sizes.
TypeOK ==
  /\ conf \in Config
  /\ n \in Nat /\ fed \in 0 .. conf.fed
  /\ {c.have, c.devinit, c.silent, c.record, c.ovf, env, ready, allowed} \subseteq BOOLEAN
  /\ c.idx \in 0 .. n
  /\ c.pre \in [0 .. PreSz - 1 -> 0 .. n]
  /\ c.serial \in Seq(1 .. n) /\ c.video \in Seq(1 .. n)
  /\ c.out.size = OutSz /\ in.size = InSz
  /\ stdout \subseteq Devs /\ stdin \subseteq Keys
  /\ tstcdev \in Keys \cup {NoDev}
  /\ keys \in [Keys -> 0 .. 1]

InOrder(s) == \A i \in 1 .. Len(s) - 1 : s[i] < s[i + 1]

\* No device shows a character twice or out of order, although the ring is
\* printed twice (console_init_f() and console_init_r()) and its characters were
\* also sent to the UART.  The exception: where console_init_r() lifts the
\* silence, the UART shows the names of the devices twice.
ShownInOrder ==
  /\ TypeOK
  /\ InOrder(c.video)
  /\ InOrder(c.serial) \/ (boot.lifted /\ ~conf.quiet)

\* When console_init_r() ends and the console is not silent, each device of
\* stdout has shown the last PRE_CON_BUF_SZ of the early characters, whatever
\* part of the boot was silent: "print out earlier messages after loading the
\* environment when allowed" (SILENT_CONSOLE_UNTIL_ENV).
EarlyShown ==
  ~boot.silent =>
    \A d \in boot.to : \A i \in 1 .. boot.n :
      i > boot.n - PreSz => \E j \in DOMAIN c[d] : c[d][j] = i

\* With SILENT_CONSOLE_UNTIL_ENV nothing is shown before an environment without
\* "silent" is loaded (or the variable removed by hand).
SilentUntilEnv ==
  conf.silence = "untilEnv" /\ ~allowed => c.serial = <<>> /\ c.video = <<>>

\* While nothing overflowed, the recorder holds exactly the characters printed
\* since it was reset or read, in order, also when the console is silent.  A lost
\* character is always reported (GD_FLG_RECORD_OVF).
RecordedAll ==
  c.record /\ ~c.ovf => Content(c.out) = Run(from + 1, n)

\* "This is never called with testcdev == NULL", nor with a device that has no
\* character: what tstc() found is still there when getchar() comes, although
\* stdin may have changed in between.
TstcPending == tstcdev # NoDev => keys[tstcdev] > 0
=============================================================================
