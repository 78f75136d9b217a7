------------------------------ MODULE PricerReload ------------------------------
(***************************************************************************)
(* Hot reload of the operator's pricing file: the load in cmd/rein/main.go,*)
(* the SIGHUP goroutine of startReloadHandlers, the poller of              *)
(* internal/meter/poll.go, and TryReload, which both use and which reads   *)
(* the file and then swaps the snapshot in, with no lock around the two.   *)
(*                                                                         *)
(* The file is what its last save left: a version number, whether          *)
(* LoadConfigFile would accept it, and a modification time, which a save   *)
(* within the resolution of the file system (or one that restores it) does *)
(* not change.  A save that is not a rename shows as two saves, the first  *)
(* one bad.  A snapshot is the version it was merged from; it is immutable *)
(* and a request prices with the one it loaded.                            *)
(***************************************************************************)
EXTENDS Integers

CONSTANTS
  MaxSaves,    \* saves of the file in one behaviour (bound)
  Nil          \* nothing to swap in

ASSUME ReloadAssumption == MaxSaves \in Nat /\ Nil \notin Nat

VARIABLES
  file,        \* the pricing file
  process,     \* "booting", "serving", "draining" or "exited"
  holder,      \* version of the snapshot in the PricerHolder
  hup,         \* the signal channel, which holds one signal
  polling,     \* REIN_CONFIG_POLL_INTERVAL is set
  lastMod,     \* lastModTime of the poller; 0 is the zero time
  reload,      \* the two goroutines
  good,        \* versions that were acceptable (history)
  asked,       \* a SIGHUP came for what the file holds now (history)
  excused      \* why the poller may never load what the file holds now (history)

history == <<good, asked, excused>>
reloadVars == <<file, process, holder, hup, polling, lastMod, reload, history>>

Triggers == {"sighup", "poll"}
Kinds == {"good", "bad", "missing"}
Reload == [at : {"off", "seed", "wait", "read", "swap", "stopped"}, got : Nat \cup {Nil}]

ReloadTypeOK ==
  /\ file \in [ver : 0..MaxSaves, kind : Kinds, mtime : 1..MaxSaves + 1]
  /\ process \in {"booting", "serving", "draining", "exited"}
  /\ holder \in 0..MaxSaves \cup {Nil}
  /\ hup \in BOOLEAN /\ polling \in BOOLEAN
  /\ lastMod \in 0..MaxSaves + 1
  /\ reload \in [Triggers -> Reload]
  /\ good \subseteq 0..MaxSaves
  /\ asked \in BOOLEAN /\ excused \in BOOLEAN

ReloadInit ==
  /\ file = [ver |-> 0, kind |-> "good", mtime |-> 1]
  /\ process = "booting" /\ holder = Nil
  /\ hup = FALSE /\ polling \in BOOLEAN /\ lastMod = 0
  /\ reload = [w \in Triggers |-> [at |-> "off", got |-> Nil]]
  /\ good = {0} /\ asked = FALSE /\ excused = FALSE

At(w, p) == reload[w].at = p
Goto(w, p) == reload' = [reload EXCEPT ![w] = [at |-> p, got |-> Nil]]
Up == process \in {"serving", "draining"}

-----------------------------------------------------------------------------
(* The operator.                                                           *)

Save(kind, fresh) ==
  /\ file.ver < MaxSaves
  /\ file' = [ver |-> file.ver + 1, kind |-> kind, mtime |-> file.mtime + (IF fresh THEN 1 ELSE 0)]
  /\ good' = IF kind = "good" THEN good \cup {file'.ver} ELSE good
  /\ asked' = FALSE
  /\ excused' = (Up /\ (~fresh \/ At("poll", "seed")))
  /\ UNCHANGED <<process, holder, hup, polling, lastMod, reload>>

(* Mutant: the channel has no buffer, so a busy goroutine hears nothing.   *)
Sighup_Unbuffered ==
  /\ Up
  /\ hup' = At("sighup", "wait")
  /\ asked' = (asked \/ ~At("poll", "swap"))
  /\ UNCHANGED <<file, process, holder, polling, lastMod, reload, good, excused>>

(* os/signal drops a signal when the channel is full: one is pending then. *)
(* asked: nobody is about to swap in what the file held before.            *)
Sighup ==
  /\ Up
  /\ hup' = TRUE
  /\ asked' = (asked \/ ~At("poll", "swap"))
  /\ UNCHANGED <<file, process, holder, polling, lastMod, reload, good, excused>>

-----------------------------------------------------------------------------
StartReloadHandlers ==
  reload' = [w \in Triggers |->
    [at |-> IF w = "sighup" THEN "wait" ELSE IF polling THEN "seed" ELSE "off", got |-> Nil]]

(* main: a file that does not load is fatal; then the goroutines start.    *)
Boot ==
  /\ process = "booting"
  /\ IF file.kind = "good"
       THEN process' = "serving" /\ holder' = file.ver /\ StartReloadHandlers
       ELSE process' = "exited" /\ UNCHANGED <<holder, reload>>
  /\ UNCHANGED <<file, hup, polling, lastMod, history>>

(* The shutdown signal cancels the context of both goroutines.             *)
Drain ==
  /\ process = "serving" /\ process' = "draining"
  /\ UNCHANGED <<file, holder, hup, polling, lastMod, reload, history>>

(* A select with several ready cases takes any of them.                    *)
Stop(w) ==
  /\ At(w, "wait") /\ process = "draining"
  /\ Goto(w, "stopped")
  /\ UNCHANGED <<file, process, holder, hup, polling, lastMod, history>>

TakeSignal ==
  /\ At("sighup", "wait") /\ hup
  /\ hup' = FALSE /\ Goto("sighup", "read")
  /\ UNCHANGED <<file, process, holder, polling, lastMod, history>>

(* PollLoop starts: what is there now counts as loaded.                    *)
Seed ==
  /\ At("poll", "seed")
  /\ lastMod' = IF file.kind = "missing" THEN 0 ELSE file.mtime
  /\ Goto("poll", "wait")
  /\ UNCHANGED <<file, process, holder, hup, polling, history>>

(* A tick that sees a new modification time.  It counts as loaded from now *)
(* on, whether or not the reload succeeds.                                 *)
PollTick ==
  /\ At("poll", "wait")
  /\ file.kind # "missing" /\ file.mtime # lastMod
  /\ lastMod' = file.mtime
  /\ Goto("poll", "read")
  /\ UNCHANGED <<file, process, holder, hup, polling, history>>

(* Mutant: entries are merged before all of them are validated.            *)
ReadConfig_Partial(w) ==
  /\ At(w, "read")
  /\ IF file.kind # "missing"
       THEN reload' = [reload EXCEPT ![w] = [at |-> "swap", got |-> file.ver]]
       ELSE Goto(w, "wait")
  /\ UNCHANGED <<file, process, holder, hup, polling, lastMod, history>>

(* TryReload, LoadConfigFile: all of the file is acceptable, or the active *)
(* snapshot stays.                                                         *)
ReadConfig(w) ==
  /\ At(w, "read")
  /\ IF file.kind = "good"
       THEN reload' = [reload EXCEPT ![w] = [at |-> "swap", got |-> file.ver]]
       ELSE Goto(w, "wait")
  /\ UNCHANGED <<file, process, holder, hup, polling, lastMod, history>>

(* The read fails although the file is fine; nobody tries again.           *)
ReadFails(w) ==
  /\ At(w, "read")
  /\ Goto(w, "wait")
  /\ IF w = "poll" THEN excused' = TRUE /\ UNCHANGED asked
                   ELSE asked' = FALSE /\ UNCHANGED excused
  /\ UNCHANGED <<file, process, holder, hup, polling, lastMod, good>>

(* Mutant: the poller notes the modification time again after the reload.  *)
SwapIn_ThenStat(w) ==
  /\ At(w, "swap")
  /\ holder' = reload[w].got
  /\ Goto(w, "wait")
  /\ lastMod' = IF w = "poll" THEN file.mtime ELSE lastMod
  /\ excused' = (excused \/ (w = "sighup" /\ reload[w].got # file.ver))
  /\ UNCHANGED <<file, process, hup, polling, good, asked>>

SwapIn(w) ==
  /\ At(w, "swap")
  /\ holder' = reload[w].got
  /\ Goto(w, "wait")
  /\ excused' = (excused \/ (w = "sighup" /\ reload[w].got # file.ver))
  /\ UNCHANGED <<file, process, hup, polling, lastMod, good, asked>>

ReloadNext ==
  \/ \E kind \in Kinds, fresh \in BOOLEAN : Save(kind, fresh)
  \/ Sighup \/ Boot \/ Drain \/ TakeSignal \/ Seed \/ PollTick
  \/ \E w \in Triggers : Stop(w) \/ ReadConfig(w) \/ ReadFails(w) \/ SwapIn(w)

(* Goroutines run, the ticker ticks.  Nobody has to save or signal.        *)
ReloadFairness ==
  /\ WF_reloadVars(Boot) /\ WF_reloadVars(Seed)
  /\ WF_reloadVars(TakeSignal) /\ WF_reloadVars(PollTick)
  /\ \A w \in Triggers :
       WF_reloadVars(ReadConfig(w) \/ SwapIn(w))

ReloadSpec == ReloadInit /\ [][ReloadNext]_reloadVars /\ ReloadFairness
-----------------------------------------------------------------------------
(* Requests are always priced from one complete acceptable version of the  *)
(* file; a bad, missing or unreadable file changes nothing.                *)
KeepsLastGood == Up => holder \in good

(* A SIGHUP is never lost: if the file rests after the operator saved a    *)
(* good version and signalled, that version becomes and stays the active   *)
(* snapshot, however the signal met a reload in progress or a pending      *)
(* signal.  Excepted: the poller was between reading an older version and  *)
(* swapping it in.                                                         *)
SighupTakesEffect ==
  <>[](asked /\ file.kind = "good" /\ process = "serving") => <>[](holder = file.ver)

(* The poller finds every change in the end: if the file rests on a good   *)
(* version, that version becomes and stays active.  Excepted are exactly:  *)
(* a save between the load in main and the poller's start, one that kept   *)
(* the modification time, a read that failed, and a SIGHUP reload that     *)
(* swapped in an older version late.                                       *)
PollerConverges ==
  <>[](polling /\ ~excused /\ file.kind = "good" /\ process = "serving")
    => <>[](holder = file.ver)
=============================================================================
