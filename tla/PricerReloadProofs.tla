--------------------------- MODULE PricerReloadProofs ---------------------------
(***************************************************************************)
(* PricerReload for any number of saves: the active prices are those of    *)
(* one complete acceptable version of the file.  Nothing orders the read   *)
(* of the file and the swap of two goroutines, so what each of them has    *)
(* read and not yet swapped in must be acceptable too, although the file   *)
(* may hold something else by then.                                        *)
(***************************************************************************)
EXTENDS PricerReload, TLAPS

ReloadInv ==
  /\ ReloadTypeOK
  /\ Up => holder \in good
  /\ file.kind = "good" => file.ver \in good
  /\ file.mtime <= file.ver + 1
  /\ \A w \in Triggers : At(w, "swap") => reload[w].got \in good

(* What a goroutine does to its own progress.                              *)
LEMMA OwnProgress ==
  ASSUME reload \in [Triggers -> Reload], NEW w \in Triggers, NEW c \in Reload,
         reload' = [reload EXCEPT ![w] = c]
  PROVE  /\ reload' \in [Triggers -> Reload]
         /\ reload'[w] = c
         /\ \A u \in Triggers \ {w} : reload'[u] = reload[u]
OBVIOUS

(* A goroutine without anything to swap in.                                *)
LEMMA EmptyHanded ==
  ASSUME NEW p \in {"off", "seed", "wait", "read", "swap", "stopped"},
         NEW c, c = [at |-> p, got |-> Nil]
  PROVE  c \in Reload /\ c.at = p
BY DEF Reload

(* A goroutine that goes where there is nothing to swap in.                *)
LEMMA Moved ==
  ASSUME ReloadInv, NEW w \in Triggers, NEW p \in {"wait", "read", "stopped"}, Goto(w, p),
         good' = good
  PROVE  /\ reload' \in [Triggers -> Reload]
         /\ \A u \in Triggers : reload'[u].at = "swap" => reload'[u].got \in good'
<1> DEFINE c == [at |-> p, got |-> Nil]
<1>1. c \in Reload /\ c.at = p
  BY EmptyHanded
<1>2. reload \in [Triggers -> Reload] /\ reload' = [reload EXCEPT ![w] = c]
  BY DEF ReloadInv, ReloadTypeOK, Goto
<1> HIDE DEF c
<1>3. /\ reload' \in [Triggers -> Reload] /\ reload'[w] = c
      /\ \A u \in Triggers \ {w} : reload'[u] = reload[u]
  BY <1>1, <1>2, OwnProgress
<1> QED
  BY <1>1, <1>3 DEF ReloadInv, At

(* Every step keeps the invariant.                                         *)
LEMMA ReloadStepInv ==
  ASSUME ReloadInv, [ReloadNext]_reloadVars
  PROVE  ReloadInv'
<1>t. /\ file \in [ver : 0..MaxSaves, kind : Kinds, mtime : 1..MaxSaves + 1]
      /\ reload \in [Triggers -> Reload] /\ good \subseteq 0..MaxSaves
      /\ lastMod \in 0..MaxSaves + 1 /\ MaxSaves \in Nat
  BY ReloadAssumption DEF ReloadInv, ReloadTypeOK
<1>k. /\ Up => holder \in good
      /\ file.kind = "good" => file.ver \in good
      /\ file.mtime <= file.ver + 1
      /\ \A w \in Triggers : reload[w].at = "swap" => reload[w].got \in good
  BY DEF ReloadInv, At
<1>1. ASSUME NEW kind \in Kinds, NEW fresh \in BOOLEAN, Save(kind, fresh) PROVE ReloadInv'
  <2> DEFINE n == file.mtime + (IF fresh THEN 1 ELSE 0)
             f == [ver |-> file.ver + 1, kind |-> kind, mtime |-> n]
  <2>1. /\ file.ver < MaxSaves /\ file' = f
        /\ good' = IF kind = "good" THEN good \cup {file'.ver} ELSE good
        /\ asked' = FALSE
        /\ UNCHANGED <<process, holder, hup, polling, lastMod, reload>>
    BY <1>1 DEF Save
  <2>2. excused' \in BOOLEAN
    BY <1>1 DEF Save
  <2>3. n \in 1..(MaxSaves + 1) /\ n <= (file.ver + 1) + 1 /\ file.ver + 1 \in 0..MaxSaves
    BY <1>t, <1>k, <2>1
  <2> HIDE DEF n
  <2>4. /\ f \in [ver : 0..MaxSaves, kind : Kinds, mtime : 1..MaxSaves + 1]
        /\ f.ver = file.ver + 1 /\ f.mtime = n /\ f.kind = kind
    BY <2>3
  <2> HIDE DEF f
  <2>5. good \subseteq good' /\ good' \subseteq 0..MaxSaves
        /\ (file'.kind = "good" => file'.ver \in good') /\ file'.mtime <= file'.ver + 1
    BY <1>t, <2>1, <2>3, <2>4
  <2>6. ReloadTypeOK'
    BY <2>1, <2>2, <2>4, <2>5 DEF ReloadInv, ReloadTypeOK
  <2>7. (Up => holder \in good)'
    BY <1>k, <2>1, <2>5 DEF Up
  <2>8. \A w \in Triggers : reload'[w].at = "swap" => reload'[w].got \in good'
    BY <1>k, <2>1, <2>5
  <2> QED
    BY <2>5, <2>6, <2>7, <2>8 DEF ReloadInv, At
<1>2. ASSUME Sighup PROVE ReloadInv'
  <2>1. /\ hup' = TRUE /\ asked' \in BOOLEAN
        /\ UNCHANGED <<file, process, holder, polling, lastMod, reload, good, excused>>
    BY <1>2 DEF Sighup
  <2> QED
    BY <1>k, <2>1 DEF ReloadInv, ReloadTypeOK, Up, At
<1>3. ASSUME Boot PROVE ReloadInv'
  <2>0. process = "booting" /\ UNCHANGED <<file, hup, polling, lastMod, good, asked, excused>>
    BY <1>3 DEF Boot, history
  <2>1. CASE file.kind = "good"
    <3>1. process' = "serving" /\ holder' = file.ver /\ StartReloadHandlers
      BY <1>3, <2>1 DEF Boot
    <3>2. ASSUME NEW w \in Triggers
          PROVE  reload'[w] \in Reload /\ reload'[w].at # "swap"
      <4>1. \/ reload'[w] = [at |-> "wait", got |-> Nil]
            \/ reload'[w] = [at |-> "seed", got |-> Nil]
            \/ reload'[w] = [at |-> "off", got |-> Nil]
        BY <3>1 DEF StartReloadHandlers
      <4> QED
        BY <4>1, EmptyHanded
    <3>3. reload' \in [Triggers -> Reload]
      <4>1. reload' = [w \in Triggers |-> reload'[w]]
        BY <3>1 DEF StartReloadHandlers
      <4> QED
        BY <3>2, <4>1
    <3>4. file.ver \in good /\ file.ver \in 0..MaxSaves
      BY <1>k, <1>t, <2>1
    <3> QED
      BY <1>k, <2>0, <3>1, <3>2, <3>3, <3>4 DEF ReloadInv, ReloadTypeOK, At
  <2>2. CASE file.kind # "good"
    <3>1. process' = "exited" /\ UNCHANGED <<holder, reload>>
      BY <1>3, <2>2 DEF Boot
    <3> QED
      BY <1>k, <2>0, <3>1 DEF ReloadInv, ReloadTypeOK, Up, At
  <2> QED
    BY <2>1, <2>2
<1>4. ASSUME Drain PROVE ReloadInv'
  <2>1. /\ process = "serving" /\ process' = "draining"
        /\ UNCHANGED <<file, holder, hup, polling, lastMod, reload, good, asked, excused>>
    BY <1>4 DEF Drain, history
  <2> QED
    BY <1>k, <2>1 DEF ReloadInv, ReloadTypeOK, Up, At
<1>5. ASSUME NEW w \in Triggers, NEW p \in {"wait", "read", "stopped"}, Goto(w, p),
             UNCHANGED <<file, process, holder, polling, good>>,
             hup' \in BOOLEAN, lastMod' \in 0..MaxSaves + 1,
             asked' \in BOOLEAN, excused' \in BOOLEAN
      PROVE  ReloadInv'
  <2>1. /\ reload' \in [Triggers -> Reload]
        /\ \A u \in Triggers : reload'[u].at = "swap" => reload'[u].got \in good'
    BY <1>5, Moved
  <2>2. ReloadTypeOK'
    BY <1>5, <2>1 DEF ReloadInv, ReloadTypeOK
  <2>3. (Up => holder \in good)'
    BY <1>k, <1>5 DEF Up
  <2> QED
    BY <1>k, <1>5, <2>1, <2>2, <2>3 DEF ReloadInv, At
<1>b. hup \in BOOLEAN /\ asked \in BOOLEAN /\ excused \in BOOLEAN
  BY DEF ReloadInv, ReloadTypeOK
<1>w. "sighup" \in Triggers /\ "poll" \in Triggers
  BY DEF Triggers
<1>6. ASSUME NEW w \in Triggers, Stop(w) PROVE ReloadInv'
  BY <1>6, <1>5, <1>b, <1>t DEF Stop, history
<1>7. ASSUME TakeSignal PROVE ReloadInv'
  BY <1>7, <1>5, <1>b, <1>t, <1>w DEF TakeSignal, history
<1>m. file.mtime \in 0..MaxSaves + 1 /\ 0 \in 0..MaxSaves + 1
  BY <1>t
<1>8. ASSUME Seed \/ PollTick PROVE ReloadInv'
  <2>1. lastMod' \in {0, file.mtime}
    BY <1>8 DEF Seed, PollTick
  <2>2. lastMod' \in 0..MaxSaves + 1
    BY <1>m, <2>1
  <2> QED
    BY <1>8, <1>5, <1>b, <1>w, <2>2 DEF Seed, PollTick, history
<1>9. ASSUME NEW w \in Triggers, ReadFails(w) PROVE ReloadInv'
  <2>1. asked' \in BOOLEAN /\ excused' \in BOOLEAN
    BY <1>9, <1>b DEF ReadFails
  <2> QED
    BY <1>9, <1>5, <1>b, <1>t, <2>1 DEF ReadFails
<1>10. ASSUME NEW w \in Triggers, ReadConfig(w) PROVE ReloadInv'
  <2>0. UNCHANGED <<file, process, holder, hup, polling, lastMod, good, asked, excused>>
    BY <1>10 DEF ReadConfig, history
  <2>1. CASE file.kind = "good"
    <3> DEFINE c == [at |-> "swap", got |-> file.ver]
    <3>1. c \in Reload /\ c.got = file.ver /\ file.ver \in good
      BY <1>t, <1>k, <2>1 DEF Reload
    <3>2. reload' = [reload EXCEPT ![w] = c]
      BY <1>10, <2>1 DEF ReadConfig
    <3> HIDE DEF c
    <3>3. /\ reload' \in [Triggers -> Reload] /\ reload'[w] = c
          /\ \A u \in Triggers \ {w} : reload'[u] = reload[u]
      BY <1>t, <3>1, <3>2, OwnProgress
    <3>4. \A u \in Triggers : reload'[u].at = "swap" => reload'[u].got \in good'
      BY <1>k, <2>0, <3>1, <3>3
    <3>5. ReloadTypeOK'
      BY <2>0, <3>3 DEF ReloadInv, ReloadTypeOK
    <3> QED
      BY <1>k, <2>0, <3>4, <3>5 DEF ReloadInv, Up, At
  <2>2. CASE file.kind # "good"
    <3>1. Goto(w, "wait")
      BY <1>10, <2>2 DEF ReadConfig
    <3> QED
      BY <1>5, <1>b, <1>t, <2>0, <3>1
  <2> QED
    BY <2>1, <2>2
<1>11. ASSUME NEW w \in Triggers, SwapIn(w) PROVE ReloadInv'
  <2>1. /\ reload[w].at = "swap" /\ holder' = reload[w].got /\ Goto(w, "wait")
        /\ UNCHANGED <<file, process, hup, polling, lastMod, good, asked>>
    BY <1>11 DEF SwapIn, At
  <2>2. excused' \in BOOLEAN
    BY <1>11, <1>b DEF SwapIn
  <2>3. holder' \in good /\ holder' \in 0..MaxSaves
    BY <1>t, <1>k, <2>1
  <2>4. /\ reload' \in [Triggers -> Reload]
        /\ \A u \in Triggers : reload'[u].at = "swap" => reload'[u].got \in good'
    BY <2>1, Moved
  <2>5. ReloadTypeOK'
    BY <2>1, <2>2, <2>3, <2>4 DEF ReloadInv, ReloadTypeOK
  <2> QED
    BY <1>k, <2>1, <2>3, <2>4, <2>5 DEF ReloadInv, Up, At
<1>12. CASE UNCHANGED reloadVars
  BY <1>12, <1>k DEF reloadVars, history, ReloadInv, ReloadTypeOK, Up, At
<1> QED
  BY <1>1, <1>2, <1>3, <1>4, <1>6, <1>7, <1>8, <1>9, <1>10, <1>11, <1>12 DEF ReloadNext

(* The file main finds is the first acceptable version.                    *)
LEMMA ReloadInitInv == ReloadInit => ReloadInv
<1> SUFFICES ASSUME ReloadInit PROVE ReloadInv
  OBVIOUS
<1> DEFINE c == [at |-> "off", got |-> Nil]
           f == [ver |-> 0, kind |-> "good", mtime |-> 1]
<1>1. c \in Reload /\ c.at = "off"
  BY EmptyHanded
<1>2. /\ f \in [ver : 0..MaxSaves, kind : Kinds, mtime : 1..MaxSaves + 1]
      /\ f.ver = 0 /\ f.mtime = 1 /\ f.kind = "good"
  BY ReloadAssumption DEF Kinds
<1>3. file = f /\ reload = [w \in Triggers |-> c]
  BY DEF ReloadInit
<1> HIDE DEF c, f
<1>4. reload \in [Triggers -> Reload] /\ \A w \in Triggers : reload[w].at = "off"
  BY <1>1, <1>3
<1>5. ReloadTypeOK
  <2>1. file \in [ver : 0..MaxSaves, kind : Kinds, mtime : 1..MaxSaves + 1]
    BY <1>2, <1>3
  <2>2. lastMod \in 0..MaxSaves + 1 /\ good \subseteq 0..MaxSaves
    BY ReloadAssumption DEF ReloadInit
  <2> QED
    BY <1>4, <2>1, <2>2 DEF ReloadInit, ReloadTypeOK
<1> QED
  BY <1>2, <1>3, <1>4, <1>5 DEF ReloadInit, ReloadInv, Up, At

(* The invariant holds in every reachable state.                           *)
THEOREM ReloadInvariant == ReloadSpec => []ReloadInv
<1>1. ReloadInit => ReloadInv
  BY ReloadInitInv
<1>2. ReloadInv /\ [ReloadNext]_reloadVars => ReloadInv'
  BY ReloadStepInv
<1> QED
  BY <1>1, <1>2, PTL DEF ReloadSpec

(* Requests are priced from one acceptable version of the pricing file,    *)
(* whatever is saved, signalled and read in whatever order.                *)
THEOREM LastGoodIsKept == ReloadSpec => []KeepsLastGood
<1>1. ReloadInv => KeepsLastGood
  BY DEF ReloadInv, KeepsLastGood
<1> QED
  BY <1>1, ReloadInvariant, PTL
=============================================================================
