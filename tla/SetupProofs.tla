---------------------------- MODULE SetupProofs -----------------------------
(****************************************************************************)
(* For every list of migration files that keeps what it needs, every set of*)
(* migrators and releases and every number of upsets: a run that ends in   *)
(* success has left no file of its release out, migrators that take turns  *)
(* leave the newest version of every shared object, and no database is stuck.*)
(* For every set of breadcrumb files and jobs: an item someone dismissed   *)
(* stays dismissed by what syncs the files.  For every set of machines and *)
(* of commands at once: a directory is not taken from a project by a       *)
(* command that has seen it there.  For every set of files, hooks, keys and*)
(* releases of the installer: what is the user's stands, what it put on    *)
(* disk is on record, and what it reports as installed is in place.        *)
(****************************************************************************)
EXTENDS Migrations, Breadcrumbs, Registry, Harness, SequenceTheorems, TLAPS

USE DEF Goto, Upset, Listed, Nobody

MStep(m) ==
  \/ \E r \in Releases : Begin(m, r)
  \/ IsApplied(m) \/ RunFile(m) \/ RunFails(m) \/ RecordApplied(m)
  \/ Finish(m) \/ Crash(m)

LEMMA NextCases ==
  ASSUME Next
  PROVE  (\E m \in Migrator : MStep(m)) \/ (\E f \in Files : RunSingle(f))
BY DEF Next, MStep

LEMMA AtInFiles ==
  ASSUME MigrationsAssumption, TypeOK, NEW m \in Migrator,
         pc[m] \in {"run", "record"} \/ at[m] <= release[m]
  PROVE  /\ at[m] \in Files /\ at[m] \in Nat
         /\ at[m] + 1 \in 1..(Len(Effect) + 1)
<1>1. /\ at[m] \in 1..(Len(Effect) + 1) /\ release[m] \in Files \cup {0}
      /\ at[m] <= release[m]
      /\ Len(Effect) \in Nat /\ Files = 1..Len(Effect)
  BY DEF TypeOK, MigrationsAssumption
<1>. QED
  BY <1>1

LEMMA UpsetsBounded ==
  ASSUME MigrationsAssumption, TypeOK, UNCHANGED upsets \/ Upset
  PROVE  upsets' \in 0..MaxUpsets
BY DEF MigrationsAssumption, TypeOK

LEMMA NextFile ==
  ASSUME MigrationsAssumption, NEW f \in Files, NEW i \in Nat, f < i + 1
  PROVE  f < i \/ f = i
BY DEF MigrationsAssumption

(* What a migrator has passed has run, and what it is about to record too. *)
Passed ==
  \A m \in Migrator :
    /\ pc[m] # "idle" => \A f \in Files : f < at[m] => f \in ran
    /\ pc[m] = "record" => at[m] \in ran

RanInv == TypeOK /\ Passed
-----------------------------------------------------------------------------
(* Every part of the state keeps its type, and only files that ran are     *)
(* ever recorded.                                                          *)
LEMMA RanInvInit == Init => RanInv
BY MigrationsAssumption DEF Init, RanInv, TypeOK, Passed

LEMMA RanInvStep == RanInv /\ [Next]_vars => RanInv'
<1>. SUFFICES ASSUME RanInv, [Next]_vars PROVE RanInv'
  OBVIOUS
<1>. USE MigrationsAssumption DEF RanInv
<1>1. ASSUME NEW m \in Migrator, NEW r \in Releases, Begin(m, r) PROVE RanInv'
  <2>1. TypeOK'
    BY <1>1 DEF Begin, TypeOK, MigrationsAssumption
  <2>2. Passed'
    BY <1>1, <2>1 DEF Begin, TypeOK, Passed, MigrationsAssumption
  <2>. QED
    BY <2>1, <2>2
<1>2. ASSUME NEW m \in Migrator, IsApplied(m) PROVE RanInv'
  <2>1. at[m] \in Files /\ at[m] \in Nat /\ at[m] + 1 \in 1..(Len(Effect) + 1)
    BY <1>2, AtInFiles DEF IsApplied
  <2>2. TypeOK'
    <3>1. /\ at' \in [Migrator -> 1..(Len(Effect) + 1)]
          /\ pc' \in [Migrator -> {"idle", "check", "run", "record"}]
          /\ \A n \in Migrator : pc'[n] \in {"run", "record"} => at'[n] <= release[n]
      BY <1>2, <2>1 DEF IsApplied, TypeOK
    <3>2. upsets' \in 0..MaxUpsets
      BY <1>2, UpsetsBounded DEF IsApplied
    <3>. QED
      BY <1>2, <3>1, <3>2 DEF IsApplied, TypeOK
  <2>3. \/ at' = at
        \/ at[m] \in ran /\ at' = [at EXCEPT ![m] = @ + 1] /\ pc' = pc
    BY <1>2 DEF IsApplied, TypeOK
  <2>4. pc' = pc \/ pc' = [pc EXCEPT ![m] = "run"]
    BY <1>2 DEF IsApplied
  <2>5. Passed'
    <3>1. CASE at' = at
      BY <1>2, <2>4, <3>1 DEF IsApplied, TypeOK, Passed
    <3>2. CASE at[m] \in ran /\ at' = [at EXCEPT ![m] = @ + 1] /\ pc' = pc
      <4>1. at'[m] = at[m] + 1 /\ \A n \in Migrator \ {m} : at'[n] = at[n]
        BY <3>2 DEF TypeOK
      <4>2. \A f \in Files : f < at'[m] => f \in ran
        BY <1>2, <2>1, <3>2, <4>1, NextFile DEF IsApplied, Passed
      <4>. QED
        BY <1>2, <3>2, <4>1, <4>2 DEF IsApplied, Passed
    <3>. QED
      BY <2>3, <3>1, <3>2
  <2>. QED
    BY <2>2, <2>5
<1>3. ASSUME NEW m \in Migrator, RunFile(m) PROVE RanInv'
  <2>1. at[m] \in Files
    BY <1>3, AtInFiles DEF RunFile
  <2>2. TypeOK'
    BY <1>3, <2>1 DEF RunFile, Apply, TypeOK
  <2>3. Passed'
    BY <1>3, <2>1 DEF RunFile, Apply, TypeOK, Passed
  <2>. QED
    BY <2>2, <2>3
<1>4. ASSUME NEW m \in Migrator, RunFails(m) \/ Finish(m) \/ Crash(m) PROVE RanInv'
  <2>1. pc' = [pc EXCEPT ![m] = "idle"]
        /\ UNCHANGED <<objects, definer, recorded, at, release, ran, upsets>>
    BY <1>4 DEF RunFails, Finish, Crash
  <2>. QED
    BY <2>1 DEF TypeOK, Passed
<1>5. ASSUME NEW m \in Migrator, RecordApplied(m) PROVE RanInv'
  <2>1. at[m] \in Files /\ at[m] \in Nat /\ at[m] + 1 \in 1..(Len(Effect) + 1)
    BY <1>5, AtInFiles DEF RecordApplied
  <2>2. at[m] \in ran
    BY <1>5 DEF RecordApplied, Passed
  <2>3. /\ recorded' \subseteq ran /\ ran' = ran
        /\ at' = [at EXCEPT ![m] = @ + 1] /\ pc' = [pc EXCEPT ![m] = "check"]
        /\ UNCHANGED <<objects, definer, release>>
    BY <1>5, <2>2 DEF RecordApplied, TypeOK
  <2>4. TypeOK'
    <3>1. upsets' \in 0..MaxUpsets
      BY <1>5, UpsetsBounded DEF RecordApplied
    <3>. QED
      BY <2>1, <2>3, <3>1 DEF TypeOK
  <2>5. Passed'
    <3>1. /\ at'[m] = at[m] + 1 /\ pc'[m] = "check"
          /\ \A n \in Migrator \ {m} : at'[n] = at[n] /\ pc'[n] = pc[n]
      BY <2>3 DEF TypeOK
    <3>2. \A f \in Files : f < at'[m] => f \in ran
      BY <1>5, <2>1, <2>2, <3>1, NextFile DEF RecordApplied, Passed
    <3>. QED
      BY <2>3, <3>1, <3>2 DEF Passed
  <2>. QED
    BY <2>4, <2>5
<1>6. ASSUME NEW f \in Files, RunSingle(f) PROVE RanInv'
  <2>1. TypeOK'
    BY <1>6 DEF RunSingle, Apply, TypeOK, MigrationsAssumption
  <2>2. Passed'
    BY <1>6 DEF RunSingle, Apply, Passed
  <2>. QED
    BY <2>1, <2>2
<1>7. CASE UNCHANGED vars
  BY <1>7 DEF vars, TypeOK, Passed
<1>. QED
  BY <1>1, <1>2, <1>3, <1>4, <1>5, <1>6, <1>7, NextCases DEF MStep

THEOREM MigrationsTypeCorrect == Spec => []TypeOK
BY RanInvInit, RanInvStep, PTL DEF Spec, RanInv

(* A migrator that reports success leaves no file of its release behind,   *)
(* whatever slipped, died or ran beside it.                                *)
THEOREM SuccessIsComplete == Spec => []SuccessMeansAllRan
<1>1. RanInv => SuccessMeansAllRan
  BY MigrationsAssumption
  DEF RanInv, TypeOK, Passed, SuccessMeansAllRan, Done, MigrationsAssumption
<1>. QED
  BY RanInvInit, RanInvStep, <1>1, PTL DEF Spec
-----------------------------------------------------------------------------
(* While nothing is upset: one migrator runs at a time; the tracked files  *)
(* that ran are the first ones, recorded up to the newest, which alone may *)
(* still be unrecorded; and what a migrator has passed is recorded.        *)
Numbered == {f \in Files : f >= TrackedBy}

OneAtATime ==
  \A m, n \in Migrator : pc[m] # "idle" /\ pc[n] # "idle" => m = n

TableStands == TrackedBy \in ran => Tracks \in objects

NoGap == \A f, g \in Numbered : f \in ran /\ g <= f => g \in ran

OnlyNewestUnrecorded ==
  \A f \in Numbered : f \in ran /\ f \notin recorded => \A g \in ran : g <= f

PassedRecorded ==
  \A m \in Migrator :
    /\ pc[m] # "idle" => \A f \in Numbered : f < at[m] => f \in recorded
    /\ pc[m] = "run" /\ at[m] \in Numbered => at[m] \notin recorded

DefinerNewest ==
  \A o \in Shared :
    /\ definer[o] # Nobody => definer[o] \in ran /\ o \in Effect[definer[o]].defines
    /\ \A g \in ran : o \in Effect[g].defines => definer[o] # Nobody /\ g <= definer[o]

Orderly ==
  /\ OneAtATime /\ NoGap /\ OnlyNewestUnrecorded /\ PassedRecorded /\ DefinerNewest

ViewInv == RanInv /\ TableStands /\ (upsets = 0 => Orderly)

LEMMA NumberedFacts ==
  ASSUME MigrationsAssumption
  PROVE  TrackedBy \in Numbered /\ Numbered \subseteq Files /\ Files \subseteq Nat
BY DEF MigrationsAssumption, Numbered

(* The table of applied files outlives every step once its file has run. *)
LEMMA TableKept ==
  ASSUME MigrationsAssumption, EffectAssumption, TableStands,
         \/ \E f \in Files : Apply(f)
         \/ UNCHANGED <<objects, ran>>
  PROVE  TableStands'
<1>1. ASSUME NEW f \in Files, Apply(f) PROVE TableStands'
  BY <1>1 DEF Apply, TableStands, EffectAssumption
<1>. QED
  BY <1>1 DEF TableStands

LEMMA ViewInvInit == Init => ViewInv
BY MigrationsAssumption, RanInvInit
DEF Init, ViewInv, TableStands, Orderly, OneAtATime, NoGap, OnlyNewestUnrecorded,
    PassedRecorded, DefinerNewest, MigrationsAssumption

(* When a migrator is about to run a tracked file, no later one has run. *)
LEMMA RunsAtTheFront ==
  ASSUME MigrationsAssumption, RanInv, Orderly,
         NEW m \in Migrator, pc[m] = "run", at[m] \in Numbered
  PROVE  \A g \in ran : g <= at[m]
<1>. SUFFICES ASSUME NEW g \in ran, ~(g <= at[m]) PROVE FALSE
  OBVIOUS
<1>1. /\ g \in Files /\ g \in Nat /\ at[m] \in Nat /\ TrackedBy \in Nat
      /\ at[m] \in Files /\ at[m] >= TrackedBy
  BY NumberedFacts DEF RanInv, TypeOK, MigrationsAssumption, Numbered
<1>2. g \in Numbered /\ at[m] <= g
  BY <1>1 DEF Numbered
<1>3. at[m] \in ran
  BY <1>2 DEF Orderly, NoGap
<1>4. at[m] \notin recorded
  BY DEF Orderly, PassedRecorded
<1>. QED
  BY <1>3, <1>4 DEF Orderly, OnlyNewestUnrecorded

LEMMA RunKeepsOrder ==
  ASSUME MigrationsAssumption, EffectAssumption, RanInv, Orderly,
         NEW m \in Migrator, RunFile(m)
  PROVE  Orderly'
<1>1. at[m] \in Files /\ at[m] \in Nat /\ Files \subseteq Nat /\ TrackedBy \in Nat
  BY AtInFiles, NumberedFacts DEF RunFile, RanInv, MigrationsAssumption
<1>2. /\ pc[m] = "run" /\ pc' = [pc EXCEPT ![m] = "record"]
      /\ ran' = ran \cup {at[m]} /\ at' = at /\ recorded' = recorded
      /\ definer' = [o \in Shared |-> IF o \in Effect[at[m]].defines
                                      THEN at[m] ELSE definer[o]]
  BY DEF RunFile, Apply
<1>3. /\ pc'[m] = "record" /\ \A n \in Migrator \ {m} : pc'[n] = pc[n]
      /\ ran \subseteq Files /\ recorded \subseteq ran
  BY <1>2 DEF RanInv, TypeOK
<1>4. at[m] \in Numbered => \A g \in ran : g <= at[m]
  BY <1>2, RunsAtTheFront
<1>5. OneAtATime'
  BY <1>2, <1>3 DEF Orderly, OneAtATime
<1>6. NoGap'
  <2>. SUFFICES ASSUME NEW f \in Numbered, NEW g \in Numbered, f \in ran', g <= f
                PROVE  g \in ran'
    BY DEF NoGap, Numbered
  <2>1. CASE f \in ran
    BY <1>2, <2>1 DEF Orderly, NoGap
  <2>2. CASE f = at[m]
    <3>1. g < at[m] \/ g = at[m]
      BY <1>1, <2>2 DEF Numbered
    <3>2. g < at[m] => g \in recorded
      BY <1>2 DEF Orderly, PassedRecorded
    <3>. QED
      BY <1>2, <1>3, <3>1, <3>2
  <2>. QED
    BY <1>2, <2>1, <2>2
<1>7. OnlyNewestUnrecorded'
  <2>. SUFFICES ASSUME NEW f \in Numbered, f \in ran', f \notin recorded, NEW g \in ran'
                PROVE  g <= f
    BY <1>2 DEF OnlyNewestUnrecorded, Numbered
  <2>1. f \in Nat /\ g \in Nat /\ f >= TrackedBy
    BY <1>1, <1>2, <1>3 DEF Numbered
  <2>2. f < at[m] => f \in recorded
    BY <1>2 DEF Orderly, PassedRecorded
  <2>3. f \in ran => \A h \in ran : h <= f
    BY DEF Orderly, OnlyNewestUnrecorded
  <2>4. f >= at[m]
    BY <1>1, <2>1, <2>2
  <2>5. CASE at[m] \in Numbered
    <3>1. f = at[m]
      BY <1>1, <1>2, <1>4, <2>1, <2>4, <2>5
    <3>. QED
      BY <1>1, <1>2, <1>4, <2>5, <3>1
  <2>6. CASE at[m] \notin Numbered
    <3>1. at[m] < TrackedBy /\ f # at[m]
      BY <1>1, <2>6 DEF Numbered
    <3>. QED
      BY <1>1, <1>2, <2>1, <2>3, <2>4, <3>1
  <2>. QED
    BY <2>5, <2>6
<1>8. PassedRecorded'
  BY <1>2, <1>3 DEF Orderly, PassedRecorded, Numbered
<1>9. DefinerNewest'
  <2>. SUFFICES ASSUME NEW o \in Shared PROVE
         /\ definer'[o] # Nobody => definer'[o] \in ran' /\ o \in Effect[definer'[o]].defines
         /\ \A g \in ran' : o \in Effect[g].defines => definer'[o] # Nobody /\ g <= definer'[o]
    BY DEF DefinerNewest, Shared, Files
  <2>1. CASE o \in Effect[at[m]].defines
    <3>1. at[m] \in Numbered
      BY <1>1, <2>1 DEF EffectAssumption, Numbered
    <3>2. definer'[o] = at[m] /\ at[m] # 0
      BY <1>1, <1>2, <2>1 DEF MigrationsAssumption
    <3>. QED
      BY <1>1, <1>2, <1>4, <2>1, <3>1, <3>2
  <2>2. CASE o \notin Effect[at[m]].defines
    BY <1>2, <2>2 DEF Orderly, DefinerNewest
  <2>. QED
    BY <2>1, <2>2
<1>. QED
  BY <1>5, <1>6, <1>7, <1>8, <1>9 DEF Orderly

LEMMA StartKeepsOrder ==
  ASSUME MigrationsAssumption, RanInv, Orderly, NEW m \in Migrator, NEW r \in Releases,
         Begin(m, r), upsets' = 0
  PROVE  Orderly'
<1>1. \A n \in Migrator : pc[n] = "idle"
  BY DEF Begin, RanInv, TypeOK, MigrationsAssumption
<1>2. /\ pc'[m] = "check" /\ at'[m] = 1 /\ \A n \in Migrator \ {m} : pc'[n] = "idle"
      /\ UNCHANGED <<definer, recorded, ran>>
  BY <1>1 DEF Begin, RanInv, TypeOK
<1>3. \A f \in Numbered : ~(f < 1)
  BY DEF Numbered, MigrationsAssumption
<1>. QED
  BY <1>2, <1>3
  DEF Orderly, OneAtATime, NoGap, OnlyNewestUnrecorded, PassedRecorded, DefinerNewest,
      Numbered

LEMMA CheckKeepsOrder ==
  ASSUME MigrationsAssumption, RanInv, TableStands, Orderly, NEW m \in Migrator,
         IsApplied(m), upsets' = 0
  PROVE  Orderly'
<1>1. /\ at[m] \in Files /\ at[m] \in Nat /\ Files \subseteq Nat
      /\ TrackedBy \in Numbered /\ TrackedBy \in Nat
  BY AtInFiles, NumberedFacts DEF IsApplied, RanInv, MigrationsAssumption
<1>2. UNCHANGED <<definer, recorded, ran>> /\ pc[m] = "check"
  BY DEF IsApplied
<1>3. ~Upset
  BY DEF RanInv, TypeOK, MigrationsAssumption
<1>4. \/ at[m] \in recorded /\ at' = [at EXCEPT ![m] = @ + 1] /\ pc' = pc
      \/ ~Listed(at[m]) /\ at' = at /\ pc' = [pc EXCEPT ![m] = "run"]
  BY <1>3 DEF IsApplied
<1>5. CASE at[m] \in recorded /\ at' = [at EXCEPT ![m] = @ + 1] /\ pc' = pc
  <2>1. at'[m] = at[m] + 1 /\ \A n \in Migrator \ {m} : at'[n] = at[n]
    BY <1>5 DEF RanInv, TypeOK
  <2>2. \A f \in Numbered : f < at'[m] => f \in recorded
    <3>. SUFFICES ASSUME NEW f \in Numbered, f < at[m] + 1 PROVE f \in recorded
      BY <2>1
    <3>1. f < at[m] \/ f = at[m]
      BY <1>1, NextFile DEF Numbered
    <3>. QED
      BY <1>2, <1>5, <3>1 DEF Orderly, PassedRecorded
  <2>3. PassedRecorded'
    BY <1>2, <1>5, <2>1, <2>2 DEF Orderly, PassedRecorded, Numbered
  <2>. QED
    BY <1>2, <1>5, <2>3
    DEF Orderly, OneAtATime, NoGap, OnlyNewestUnrecorded, DefinerNewest, Numbered
<1>6. CASE ~Listed(at[m]) /\ at' = at /\ pc' = [pc EXCEPT ![m] = "run"]
  <2>1. pc'[m] = "run" /\ \A n \in Migrator \ {m} : pc'[n] = pc[n]
    BY <1>6 DEF RanInv, TypeOK
  <2>2. at[m] \in Numbered => at[m] \notin recorded
    <3>. SUFFICES ASSUME at[m] \in Numbered, at[m] \in recorded PROVE FALSE
      OBVIOUS
    <3>1. at[m] \in ran /\ TrackedBy <= at[m]
      BY DEF RanInv, TypeOK, Numbered
    <3>2. TrackedBy \in ran
      BY <1>1, <3>1 DEF Orderly, NoGap
    <3>. QED
      BY <1>6, <3>2 DEF TableStands
  <2>3. PassedRecorded'
    BY <1>2, <1>6, <2>1, <2>2 DEF Orderly, PassedRecorded, Numbered
  <2>4. OneAtATime'
    BY <1>2, <2>1 DEF Orderly, OneAtATime
  <2>. QED
    BY <1>2, <2>3, <2>4
    DEF Orderly, NoGap, OnlyNewestUnrecorded, DefinerNewest, Numbered
<1>. QED
  BY <1>4, <1>5, <1>6

LEMMA RecordKeepsOrder ==
  ASSUME MigrationsAssumption, RanInv, TableStands, Orderly, NEW m \in Migrator,
         RecordApplied(m), upsets' = 0
  PROVE  Orderly'
<1>1. /\ at[m] \in Files /\ at[m] \in Nat /\ Files \subseteq Nat
      /\ TrackedBy \in Numbered /\ TrackedBy \in Nat
  BY AtInFiles, NumberedFacts DEF RecordApplied, RanInv, MigrationsAssumption
<1>2. /\ UNCHANGED <<definer, ran>> /\ pc[m] = "record" /\ at[m] \in ran
      /\ pc' = [pc EXCEPT ![m] = "check"] /\ at' = [at EXCEPT ![m] = @ + 1]
  BY DEF RecordApplied, RanInv, Passed
<1>3. ~Upset
  BY DEF RanInv, TypeOK, MigrationsAssumption
<1>4. recorded' = IF Tracks \in objects THEN recorded \cup {at[m]} ELSE recorded
  BY <1>3 DEF RecordApplied
<1>5. at[m] \in Numbered => at[m] \in recorded'
  <2>. SUFFICES ASSUME at[m] \in Numbered PROVE at[m] \in recorded'
    OBVIOUS
  <2>1. TrackedBy \in ran
    BY <1>1, <1>2 DEF Orderly, NoGap, Numbered
  <2>. QED
    BY <1>4, <2>1 DEF TableStands
<1>6. /\ pc'[m] = "check" /\ at'[m] = at[m] + 1 /\ recorded \subseteq recorded'
      /\ \A n \in Migrator \ {m} : pc'[n] = pc[n] /\ at'[n] = at[n] /\ pc[n] = "idle"
  BY <1>2, <1>4 DEF RanInv, TypeOK, Orderly, OneAtATime
<1>7. \A f \in Numbered : f < at'[m] => f \in recorded'
  <2>. SUFFICES ASSUME NEW f \in Numbered, f < at[m] + 1 PROVE f \in recorded'
    BY <1>6
  <2>1. f < at[m] \/ f = at[m]
    BY <1>1, NextFile DEF Numbered
  <2>2. f < at[m] => f \in recorded
    BY <1>2 DEF Orderly, PassedRecorded
  <2>. QED
    BY <1>5, <1>6, <2>1, <2>2
<1>8. PassedRecorded'
  BY <1>6, <1>7 DEF PassedRecorded, Numbered
<1>9. OnlyNewestUnrecorded'
  BY <1>2, <1>6 DEF Orderly, OnlyNewestUnrecorded, Numbered
<1>10. OneAtATime'
  BY <1>6 DEF OneAtATime
<1>. QED
  BY <1>2, <1>8, <1>9, <1>10 DEF Orderly, NoGap, DefinerNewest, Numbered

LEMMA StopKeepsOrder ==
  ASSUME RanInv, Orderly, NEW m \in Migrator,
         pc' = [pc EXCEPT ![m] = "idle"] \/ pc' = pc,
         UNCHANGED <<definer, recorded, at, ran>>
  PROVE  Orderly'
<1>1. \A n \in Migrator : pc'[n] = pc[n] \/ pc'[n] = "idle"
  BY DEF RanInv, TypeOK
<1>. QED
  BY <1>1
  DEF Orderly, OneAtATime, NoGap, OnlyNewestUnrecorded, PassedRecorded, DefinerNewest,
      Numbered

LEMMA ViewInvStep == ViewInv /\ [Next]_vars => ViewInv'
<1>. SUFFICES ASSUME ViewInv, [Next]_vars PROVE ViewInv'
  OBVIOUS
<1>. USE MigrationsAssumption, EffectAssumption
<1>1. RanInv' /\ RanInv
  BY RanInvStep DEF ViewInv
<1>2. upsets' = 0 => upsets = 0
  <2>1. UNCHANGED upsets \/ Upset
    BY NextCases DEF MStep, Begin, IsApplied, RunFile, RunFails, RecordApplied, Finish,
       Crash, RunSingle, vars
  <2>. QED
    BY <1>1, <2>1 DEF RanInv, TypeOK, MigrationsAssumption
<1>3. TableStands'
  <2>1. ASSUME NEW m \in Migrator, RunFile(m) PROVE \E f \in Files : Apply(f)
    BY <2>1, <1>1, AtInFiles DEF RunFile, RanInv
  <2>2. (\E f \in Files : Apply(f)) \/ UNCHANGED <<objects, ran>>
    BY <2>1, NextCases DEF MStep, Begin, IsApplied, RunFails, RecordApplied, Finish,
       Crash, RunSingle, vars
  <2>. QED
    BY <2>2, TableKept DEF ViewInv
<1>4. upsets' = 0 => Orderly'
  <2>. SUFFICES ASSUME upsets' = 0 PROVE Orderly'
    OBVIOUS
  <2>1. Orderly /\ TableStands
    BY <1>2 DEF ViewInv
  <2>2. ASSUME NEW m \in Migrator, NEW r \in Releases, Begin(m, r) PROVE Orderly'
    BY <1>1, <2>1, <2>2, StartKeepsOrder
  <2>3. ASSUME NEW m \in Migrator, IsApplied(m) PROVE Orderly'
    BY <1>1, <2>1, <2>3, CheckKeepsOrder
  <2>4. ASSUME NEW m \in Migrator, RunFile(m) PROVE Orderly'
    BY <1>1, <2>1, <2>4, RunKeepsOrder
  <2>5. ASSUME NEW m \in Migrator, RecordApplied(m) PROVE Orderly'
    BY <1>1, <2>1, <2>5, RecordKeepsOrder
  <2>6. ASSUME NEW m \in Migrator, RunFails(m) \/ Finish(m) \/ Crash(m) PROVE Orderly'
    BY <1>1, <2>1, <2>6, StopKeepsOrder DEF RunFails, Finish, Crash
  <2>7. ASSUME NEW f \in Files, RunSingle(f) PROVE Orderly'
    BY <1>1, <2>7 DEF RunSingle, RanInv, TypeOK, MigrationsAssumption
  <2>8. CASE UNCHANGED vars
    BY <2>1, <2>8
    DEF vars, Orderly, OneAtATime, NoGap, OnlyNewestUnrecorded, PassedRecorded,
        DefinerNewest, Numbered
  <2>. QED
    BY <2>2, <2>3, <2>4, <2>5, <2>6, <2>7, <2>8, NextCases DEF MStep
<1>. QED
  BY <1>1, <1>3, <1>4 DEF ViewInv

(* While migrators take turns and no statement slips, every shared view    *)
(* and vocabulary row is the newest version that ran.                      *)
THEOREM NewestVersionStands == Spec => []ViewsCurrent
<1>1. ViewInv => ViewsCurrent
  BY DEF ViewInv, Orderly, DefinerNewest, ViewsCurrent, Newest
<1>. QED
  BY ViewInvInit, ViewInvStep, <1>1, PTL DEF Spec
-----------------------------------------------------------------------------
(* What a file creates is there until a file that may follow drops it: the *)
(* tracked files follow in order, and of the untracked ones, which a later *)
(* pass runs again, those that follow it.                                  *)
Early == {f \in Files : f < TrackedBy}

Kept(g, f) == \A n \in Effect[g].creates : Survives(n, g, f) => n \in objects

AllRanBy(f) == \A h \in ran : h <= f

LateKept == \A g \in Numbered, f \in Files : g \in ran /\ AllRanBy(f) => Kept(g, f)

EarlyKept ==
  \A g \in Early : g \in recorded =>
    /\ \A f \in Files : AllRanBy(f) => Kept(g, f)
    /\ \A u \in Early : u \notin recorded /\ g < u => Kept(g, u)

EarlyInOrder ==
  \A u \in Early : u \in recorded =>
    /\ \A g \in Early : g < u => g \in recorded
    /\ Tracks \in objects

(* A pass that left a file unrecorded came before the table, and before    *)
(* any record of the files it has still to come to.                        *)
PassKeeps ==
  \A m \in Migrator : pc[m] # "idle" =>
    /\ \A g \in Early : g \notin recorded /\ g < at[m] =>
         /\ at[m] \in Files => Kept(g, at[m])
         /\ \A f \in recorded : f < at[m]
    /\ pc[m] = "record" => Kept(at[m], at[m])
    /\ pc[m] = "run" => at[m] \notin recorded

(* A pass that finds the table, or a record, records what it passes. *)
Recording(m) ==
  \/ \E u \in Early : u \in recorded
  \/ Tracks \in objects /\ (at[m] < TrackedBy \/ (at[m] = TrackedBy /\ pc[m] # "record"))

PassRecords ==
  \A m \in Migrator : pc[m] # "idle" /\ Recording(m) =>
    \A g \in Early : g < at[m] => g \in recorded

KeptInv == LateKept /\ EarlyKept /\ EarlyInOrder /\ PassKeeps /\ PassRecords

LEMMA EarlyOrNumbered ==
  ASSUME MigrationsAssumption
  PROVE  /\ \A f \in Files : f \in Nat /\ (f \in Early \/ f \in Numbered)
         /\ \A f \in Early : f \in Files /\ f < TrackedBy
         /\ \A f \in Numbered : f \in Files /\ TrackedBy <= f
         /\ TrackedBy \in Nat /\ TrackedBy \in Files
BY DEF MigrationsAssumption, Early, Numbered

LEMMA KeptLonger ==
  ASSUME MigrationsAssumption, NEW g \in Files, NEW f \in Files, NEW e \in Files,
         f <= e, Kept(g, f)
  PROVE  Kept(g, e)
<1>1. Between(g, f) \subseteq Between(g, e)
  BY DEF Between, MigrationsAssumption
<1>. QED
  BY <1>1 DEF Kept, Survives

LEMMA KeptFresh ==
  ASSUME NEW g \in Files, Apply(g) PROVE \A f : Kept(g, f)'
BY DEF Apply, Kept

LEMMA KeptOver ==
  ASSUME NEW g \in Files, NEW f \in Files, NEW h \in Files, Apply(h),
         h \in Between(g, f), Kept(g, f)
  PROVE  Kept(g, f)'
BY DEF Apply, Kept, Survives

LEMMA KeptUnchanged ==
  ASSUME objects' = objects, NEW g, NEW f PROVE Kept(g, f)' <=> Kept(g, f)
BY DEF Kept

LEMMA RunKeepsNeeds ==
  ASSUME MigrationsAssumption, EffectAssumption, RanInv, TableStands, Orderly, KeptInv,
         NEW m \in Migrator, RunFile(m)
  PROVE  KeptInv'
<1>1. PICK h : h = at[m]
  OBVIOUS
<1>2. /\ h \in Files /\ Apply(h) /\ pc[m] = "run" /\ UNCHANGED <<recorded, at>>
      /\ pc' = [pc EXCEPT ![m] = "record"] /\ ran' = ran \cup {h} /\ h \notin recorded
  BY <1>1, AtInFiles DEF RunFile, RanInv, Apply, KeptInv, PassKeeps
<1>3. \A n \in Migrator : pc'[n] # "idle" => n = m
  BY <1>2 DEF Orderly, OneAtATime, RanInv, TypeOK
<1>4. h \in Numbered => \A g \in ran : g <= h
  BY <1>1, <1>2, RunsAtTheFront
<1>5. Tracks \in objects => Tracks \in objects'
  BY <1>2 DEF Apply, EffectAssumption
<1>6. \A g \in Early : g \in recorded /\ h \in Early => g < h
  BY <1>2, EarlyOrNumbered DEF KeptInv, EarlyInOrder
<1>7. LateKept'
  <2>. SUFFICES ASSUME NEW g \in Numbered, NEW f \in Files, g \in ran', AllRanBy(f)'
                PROVE  Kept(g, f)'
    BY DEF LateKept, Numbered
  <2>1. CASE g = h
    BY <1>2, <2>1, KeptFresh
  <2>2. CASE g # h
    <3>1. g \in ran /\ AllRanBy(f) /\ h <= f
      BY <1>2, <2>2 DEF AllRanBy
    <3>2. Kept(g, f)
      BY <3>1 DEF KeptInv, LateKept
    <3>3. h > g \/ h \in Early
      BY <1>2, <1>4, <2>2, <3>1, EarlyOrNumbered
    <3>4. h \in Between(g, f)
      BY <1>2, <3>1, <3>3, EarlyOrNumbered DEF Between
    <3>. QED
      BY <1>2, <3>2, <3>4, KeptOver, EarlyOrNumbered
  <2>. QED
    BY <2>1, <2>2
<1>8. EarlyKept'
  <2>1. ASSUME NEW g \in Early, g \in recorded, NEW f \in Files, AllRanBy(f)'
        PROVE  Kept(g, f)'
    <3>1. AllRanBy(f) /\ h <= f
      BY <1>2, <2>1 DEF AllRanBy
    <3>2. Kept(g, f)
      BY <2>1, <3>1 DEF KeptInv, EarlyKept
    <3>3. h > g
      BY <1>2, <1>6, <2>1, EarlyOrNumbered
    <3>. QED
      BY <1>2, <3>1, <3>2, <3>3, KeptOver, EarlyOrNumbered DEF Between
  <2>2. ASSUME NEW g \in Early, g \in recorded, NEW u \in Early, u \notin recorded, g < u
        PROVE  Kept(g, u)'
    <3>1. Kept(g, u)
      BY <2>2 DEF KeptInv, EarlyKept
    <3>2. Recording(m)
      BY <2>2 DEF Recording
    <3>3. h > g /\ h <= u
      BY <1>1, <1>2, <1>6, <2>2, <3>2, EarlyOrNumbered DEF KeptInv, PassRecords
    <3>. QED
      BY <1>2, <3>1, <3>3, KeptOver, EarlyOrNumbered DEF Between
  <2>. QED
    BY <1>2, <2>1, <2>2 DEF EarlyKept, Early
<1>9. EarlyInOrder'
  BY <1>2, <1>5 DEF KeptInv, EarlyInOrder, Early
<1>10. PassKeeps'
  <2>1. ASSUME NEW g \in Early, g \notin recorded, g < h PROVE Kept(g, h)'
    <3>1. Kept(g, h)
      BY <1>1, <1>2, <2>1 DEF KeptInv, PassKeeps
    <3>. QED
      BY <1>2, <2>1, <3>1, KeptOver, EarlyOrNumbered DEF Between
  <2>2. Kept(h, h)'
    BY <1>2, KeptFresh
  <2>3. \A g \in Early : g \notin recorded /\ g < h => \A f \in recorded : f < h
    BY <1>1, <1>2 DEF KeptInv, PassKeeps
  <2>4. pc'[m] = "record" /\ at'[m] = h /\ recorded' = recorded
    BY <1>1, <1>2 DEF RanInv, TypeOK
  <2>5. Kept(at[m], at[m])' /\ \A g \in Early : Kept(g, at[m])' <=> Kept(g, h)'
    BY <2>2, <2>4 DEF Kept
  <2>. QED
    BY <1>3, <2>1, <2>3, <2>4, <2>5 DEF PassKeeps, Early
<1>11. PassRecords'
  <2>1. Recording(m)' => Recording(m)
    <3>1. h < TrackedBy => (Tracks \in objects' => Tracks \in objects)
      BY <1>2, EarlyOrNumbered DEF Apply, EffectAssumption
    <3>. QED
      BY <1>1, <1>2, <3>1, EarlyOrNumbered DEF Recording, Early, RanInv, TypeOK
  <2>. QED
    BY <1>2, <1>3, <2>1 DEF KeptInv, PassRecords, Early
<1>. QED
  BY <1>7, <1>8, <1>9, <1>10, <1>11 DEF KeptInv

(* The other steps leave the objects and what ran as they were. *)
LEMMA LateUnchanged ==
  ASSUME UNCHANGED <<objects, ran>>, LateKept PROVE LateKept'
BY DEF LateKept, Kept, AllRanBy, Numbered

LEMMA StartKeepsNeeds ==
  ASSUME MigrationsAssumption, RanInv, KeptInv, NEW m \in Migrator, NEW r \in Releases,
         Begin(m, r), upsets' = 0
  PROVE  KeptInv'
<1>1. \A n \in Migrator : pc[n] = "idle"
  BY DEF Begin, RanInv, TypeOK, MigrationsAssumption
<1>2. /\ pc'[m] = "check" /\ at'[m] = 1 /\ \A n \in Migrator \ {m} : pc'[n] = "idle"
      /\ UNCHANGED <<objects, recorded, ran>>
  BY <1>1 DEF Begin, RanInv, TypeOK
<1>3. \A f \in Early : ~(f < 1)
  BY DEF Early, MigrationsAssumption
<1>4. EarlyKept' /\ EarlyInOrder'
  BY <1>2 DEF KeptInv, EarlyKept, EarlyInOrder, Kept, AllRanBy, Early
<1>5. PassKeeps' /\ PassRecords'
  BY <1>2, <1>3 DEF PassKeeps, PassRecords, Early
<1>. QED
  BY <1>2, <1>4, <1>5, LateUnchanged DEF KeptInv

LEMMA CheckKeepsNeeds ==
  ASSUME MigrationsAssumption, RanInv, Orderly, Orderly', KeptInv, NEW m \in Migrator,
         IsApplied(m), upsets' = 0
  PROVE  KeptInv'
<1>1. PICK h : h = at[m]
  OBVIOUS
<1>2. /\ h \in Files /\ h \in Nat /\ pc[m] = "check"
      /\ UNCHANGED <<objects, recorded, ran>>
  BY <1>1, AtInFiles DEF IsApplied, RanInv
<1>3. ~Upset
  BY DEF RanInv, TypeOK, MigrationsAssumption
<1>4. \/ h \in recorded /\ at' = [at EXCEPT ![m] = @ + 1] /\ pc' = pc
      \/ ~Listed(h) /\ at' = at /\ pc' = [pc EXCEPT ![m] = "run"]
  BY <1>1, <1>3 DEF IsApplied
<1>5. \A n \in Migrator : pc'[n] # "idle" => n = m
  BY <1>2, <1>4 DEF Orderly, OneAtATime, RanInv, TypeOK
<1>6. EarlyKept' /\ EarlyInOrder'
  BY <1>2 DEF KeptInv, EarlyKept, EarlyInOrder, Kept, AllRanBy, Early
<1>7. CASE h \in recorded /\ at' = [at EXCEPT ![m] = @ + 1] /\ pc' = pc
  <2>1. at'[m] = h + 1 /\ pc'[m] = "check"
    BY <1>1, <1>2, <1>7 DEF RanInv, TypeOK
  <2>2. \A g \in Early : g < h + 1 => g = h \/ g < h
    BY <1>2, EarlyOrNumbered
  <2>3. \A g \in Early : g \notin recorded => ~(g < h + 1)
    BY <1>1, <1>2, <1>7, <2>2, EarlyOrNumbered DEF KeptInv, PassKeeps
  <2>4. PassKeeps'
    BY <1>2, <1>5, <2>1, <2>3 DEF PassKeeps, Early
  <2>5. PassRecords'
    BY <1>2, <1>5, <2>1, <2>3 DEF PassRecords, Early
  <2>. QED
    BY <1>2, <1>6, <2>4, <2>5, LateUnchanged DEF KeptInv
<1>8. CASE ~Listed(h) /\ at' = at /\ pc' = [pc EXCEPT ![m] = "run"]
  <2>1. at'[m] = h /\ pc'[m] = "run"
    BY <1>1, <1>8 DEF RanInv, TypeOK
  <2>2. h \notin recorded
    <3>1. h \in Early => h \notin recorded
      BY <1>8 DEF KeptInv, EarlyInOrder
    <3>2. h \in Numbered => h \notin recorded
      BY <1>2, <2>1 DEF Orderly, PassedRecorded, Numbered
    <3>. QED
      BY <1>2, <3>1, <3>2, EarlyOrNumbered
  <2>3. \A g \in Early : Kept(g, h)' <=> Kept(g, h)
    BY <1>2 DEF Kept
  <2>4. \A g \in Early : g \notin recorded /\ g < h =>
          Kept(g, h) /\ \A f \in recorded : f < h
    BY <1>1, <1>2 DEF KeptInv, PassKeeps
  <2>5. PassKeeps'
    <3>1. \A g \in Early : Kept(g, at[m])' <=> Kept(g, h)'
      BY <2>1 DEF Kept
    <3>. QED
      BY <1>2, <1>5, <2>1, <2>2, <2>3, <2>4, <3>1 DEF PassKeeps, Early
  <2>6. Recording(m)' => Recording(m)
    BY <1>1, <1>2, <2>1 DEF Recording, Early
  <2>7. PassRecords'
    BY <1>1, <1>2, <1>5, <2>1, <2>6 DEF KeptInv, PassRecords, Early
  <2>. QED
    BY <1>2, <1>6, <2>5, <2>7, LateUnchanged DEF KeptInv
<1>. QED
  BY <1>4, <1>7, <1>8

LEMMA RecordKeepsNeeds ==
  ASSUME MigrationsAssumption, RanInv, TableStands, Orderly, KeptInv, NEW m \in Migrator,
         RecordApplied(m), upsets' = 0
  PROVE  KeptInv'
<1>1. PICK h : h = at[m]
  OBVIOUS
<1>2. /\ h \in Files /\ h \in Nat /\ pc[m] = "record" /\ h \in ran
      /\ UNCHANGED <<objects, ran>>
      /\ pc' = [pc EXCEPT ![m] = "check"] /\ at' = [at EXCEPT ![m] = @ + 1]
  BY <1>1, AtInFiles DEF RecordApplied, RanInv, Passed
<1>3. ~Upset
  BY DEF RanInv, TypeOK, MigrationsAssumption
<1>4. recorded' = IF Tracks \in objects THEN recorded \cup {h} ELSE recorded
  BY <1>1, <1>3 DEF RecordApplied
<1>5. \A n \in Migrator : pc'[n] # "idle" => n = m
  BY <1>2 DEF Orderly, OneAtATime, RanInv, TypeOK
<1>6. at'[m] = h + 1 /\ pc'[m] = "check"
  BY <1>1, <1>2 DEF RanInv, TypeOK
<1>7. \A g \in Early : g < h + 1 => g = h \/ g < h
  BY <1>2, EarlyOrNumbered
<1>8. Kept(h, h)
  BY <1>1, <1>2 DEF KeptInv, PassKeeps
<1>9. \A f \in Files : h <= f => Kept(h, f)
  BY <1>2, <1>8, KeptLonger
<1>10. \A g \in Early : g < h /\ h \in recorded' \ recorded /\ h \in Early => g \in recorded
  BY <1>1, <1>2, <1>4, EarlyOrNumbered DEF KeptInv, PassRecords, Recording
<1>11. EarlyKept'
  <2>1. ASSUME NEW g \in Early, g \in recorded', NEW f \in Files, AllRanBy(f)
        PROVE  Kept(g, f)
    <3>1. CASE g \in recorded
      BY <2>1, <3>1 DEF KeptInv, EarlyKept
    <3>2. CASE g = h
      BY <1>2, <1>9, <2>1, <3>2 DEF AllRanBy
    <3>. QED
      BY <1>4, <2>1, <3>1, <3>2
  <2>2. ASSUME NEW g \in Early, g \in recorded', NEW u \in Early, u \notin recorded', g < u
        PROVE  Kept(g, u)
    <3>1. CASE g \in recorded
      BY <1>4, <2>2, <3>1 DEF KeptInv, EarlyKept
    <3>2. CASE g = h
      BY <1>9, <2>2, <3>2, EarlyOrNumbered
    <3>. QED
      BY <1>4, <2>2, <3>1, <3>2
  <2>. QED
    BY <1>2, <2>1, <2>2 DEF EarlyKept, Kept, AllRanBy, Early
<1>12. EarlyInOrder'
  <2>. SUFFICES ASSUME NEW u \in Early, u \in recorded'
                PROVE  (\A g \in Early : g < u => g \in recorded') /\ Tracks \in objects
    BY <1>2 DEF EarlyInOrder, Early
  <2>1. CASE u \in recorded
    BY <1>4, <2>1 DEF KeptInv, EarlyInOrder
  <2>2. CASE u \notin recorded
    <3>1. u = h /\ Tracks \in objects
      BY <1>4, <2>2
    <3>. QED
      BY <1>4, <1>10, <2>2, <3>1
  <2>. QED
    BY <2>1, <2>2
<1>13. PassKeeps'
  <2>. SUFFICES ASSUME NEW g \in Early, g \notin recorded', g < h + 1
                PROVE  /\ h + 1 \in Files => Kept(g, h + 1)
                       /\ \A f \in recorded' : f < h + 1
    <3>1. \A g \in Early : Kept(g, at[m])' <=> Kept(g, h + 1)
      BY <1>2, <1>6 DEF Kept
    <3>. QED
      BY <1>5, <1>6, <3>1 DEF PassKeeps, Early
  <2>1. CASE g = h
    <3>1. h + 1 \in Files => Kept(g, h + 1)
      BY <1>2, <1>9, <2>1, EarlyOrNumbered
    <3>2. Tracks \notin objects
      BY <1>4, <2>1
    <3>3. \A f \in recorded : f < h + 1
      <4>1. \A f \in recorded : f \in Files /\ f \in ran
        BY DEF RanInv, TypeOK
      <4>2. TrackedBy \notin ran
        BY <3>2 DEF TableStands
      <4>3. \A f \in recorded : f \notin Numbered
        BY <4>1, <4>2, EarlyOrNumbered DEF Orderly, NoGap
      <4>4. \A f \in recorded : f \notin Early
        BY <3>2 DEF KeptInv, EarlyInOrder
      <4>. QED
        BY <4>1, <4>3, <4>4, EarlyOrNumbered
    <3>. QED
      BY <1>4, <3>1, <3>2, <3>3
  <2>2. CASE g < h
    <3>1. g \notin recorded
      BY <1>4
    <3>2. Kept(g, h) /\ \A f \in recorded : f < h
      BY <1>1, <1>2, <2>2, <3>1 DEF KeptInv, PassKeeps
    <3>3. h + 1 \in Files => Kept(g, h + 1)
      BY <1>2, <3>2, KeptLonger, EarlyOrNumbered
    <3>4. \A f \in recorded : f \in Nat
      BY EarlyOrNumbered DEF RanInv, TypeOK
    <3>. QED
      BY <1>2, <1>4, <3>2, <3>3, <3>4
  <2>. QED
    BY <1>7, <2>1, <2>2
<1>14. PassRecords'
  <2>. SUFFICES ASSUME Recording(m)', NEW g \in Early, g < h + 1 PROVE g \in recorded'
    BY <1>5, <1>6 DEF PassRecords, Early
  <2>1. CASE Recording(m)
    <3>1. g < h => g \in recorded
      BY <1>1, <1>2, <2>1 DEF KeptInv, PassRecords
    <3>2. Tracks \in objects
      BY <2>1 DEF Recording, KeptInv, EarlyInOrder
    <3>. QED
      BY <1>4, <1>7, <3>1, <3>2
  <2>2. CASE ~Recording(m)
    <3>1. ~(\E u \in Early : u \in recorded) /\ (Tracks \in objects => ~(h < TrackedBy))
      BY <1>1, <2>2 DEF Recording
    <3>2. Tracks \in objects
      BY <1>2, <1>4, <3>1 DEF Recording, Early
    <3>3. h \notin Early
      BY <3>1, <3>2, EarlyOrNumbered
    <3>4. ~(\E u \in Early : u \in recorded')
      BY <1>4, <3>1, <3>3
    <3>5. h + 1 <= TrackedBy
      BY <1>2, <1>6, <3>4, EarlyOrNumbered DEF Recording, Early
    <3>. QED
      BY <1>2, <3>1, <3>2, <3>5, EarlyOrNumbered
  <2>. QED
    BY <2>1, <2>2
<1>. QED
  BY <1>2, <1>11, <1>12, <1>13, <1>14, LateUnchanged DEF KeptInv

LEMMA StopKeepsNeeds ==
  ASSUME RanInv, KeptInv, NEW m \in Migrator, pc' = [pc EXCEPT ![m] = "idle"] \/ pc' = pc,
         UNCHANGED <<objects, recorded, at, ran>>
  PROVE  KeptInv'
<1>1. \A n \in Migrator : pc'[n] = pc[n] \/ pc'[n] = "idle"
  BY DEF RanInv, TypeOK
<1>2. EarlyKept' /\ EarlyInOrder'
  BY DEF KeptInv, EarlyKept, EarlyInOrder, Kept, AllRanBy, Early
<1>3. PassKeeps' /\ PassRecords'
  <2>1. \A n \in Migrator : pc'[n] # "idle" => pc'[n] = pc[n]
    BY <1>1
  <2>. QED
    BY <2>1 DEF KeptInv, PassKeeps, PassRecords, Recording, Early, Kept
<1>. QED
  BY <1>2, <1>3, LateUnchanged DEF KeptInv

NeedsInv == ViewInv /\ (upsets = 0 => KeptInv)

LEMMA NeedsInvInit == Init => NeedsInv
<1>1. Init => KeptInv
  BY MigrationsAssumption
  DEF Init, KeptInv, LateKept, EarlyKept, EarlyInOrder, PassKeeps, PassRecords
<1>. QED
  BY <1>1, ViewInvInit DEF NeedsInv

LEMMA NeedsInvStep == NeedsInv /\ [Next]_vars => NeedsInv'
<1>. SUFFICES ASSUME NeedsInv, [Next]_vars PROVE NeedsInv'
  OBVIOUS
<1>. USE MigrationsAssumption, EffectAssumption
<1>1. ViewInv /\ ViewInv' /\ RanInv
  BY ViewInvStep DEF NeedsInv, ViewInv
<1>2. SUFFICES ASSUME upsets' = 0 PROVE KeptInv'
  BY <1>1 DEF NeedsInv
<1>3. upsets = 0 /\ ~Upset
  <2>1. UNCHANGED upsets \/ Upset
    BY NextCases DEF MStep, Begin, IsApplied, RunFile, RunFails, RecordApplied, Finish,
       Crash, RunSingle, vars
  <2>. QED
    BY <1>1, <1>2, <2>1 DEF RanInv, TypeOK, MigrationsAssumption
<1>4. TableStands /\ Orderly /\ Orderly' /\ KeptInv
  BY <1>1, <1>2, <1>3 DEF NeedsInv, ViewInv
<1>5. ASSUME NEW m \in Migrator, MStep(m) PROVE KeptInv'
  BY <1>1, <1>2, <1>4, <1>5, StartKeepsNeeds, CheckKeepsNeeds, RunKeepsNeeds, RecordKeepsNeeds,
     StopKeepsNeeds DEF MStep, RunFails, Finish, Crash
<1>6. ASSUME NEW f \in Files, RunSingle(f) PROVE FALSE
  BY <1>3, <1>6 DEF RunSingle
<1>7. CASE UNCHANGED vars
  <2>1. UNCHANGED <<objects, ran, recorded, pc, at>>
    BY <1>7 DEF vars
  <2>. QED
    BY <1>4, <2>1, LateUnchanged DEF KeptInv, EarlyKept, EarlyInOrder, PassKeeps, PassRecords,
       Kept, AllRanBy, Recording, Early
<1>. QED
  BY <1>5, <1>6, <1>7, NextCases

(* While migrators take turns and no statement slips, no file ever finds a *)
(* relation that it needs gone: a run gets past where the last one stopped.*)
THEOREM NeverStuckStands == Spec => []NeverStuck
<1>1. ASSUME NeedsInv, upsets = 0, NEW m \in Migrator, pc[m] = "run"
      PROVE  Effect[at[m]].needs \subseteq objects
  <2>. USE MigrationsAssumption
  <2>1. PICK f : f = at[m]
    OBVIOUS
  <2>2. /\ f \in Files /\ RanInv /\ Orderly /\ KeptInv /\ f \notin recorded
    BY <1>1, <2>1, AtInFiles DEF NeedsInv, ViewInv, RanInv, KeptInv, PassKeeps
  <2>3. f \in Numbered => AllRanBy(f)
    BY <1>1, <2>1, <2>2, RunsAtTheFront DEF AllRanBy
  <2>. SUFFICES ASSUME NEW n \in Effect[f].needs PROVE n \in objects
    BY <2>1
  <2>4. PICK g \in Files : g < f /\ n \in Effect[g].creates /\ Survives(n, g, f)
    BY <2>2, NeedsAssumption
  <2>5. g \in ran
    BY <1>1, <2>1, <2>2, <2>4 DEF RanInv, Passed
  <2>6. Kept(g, f)
    <3>1. CASE g \in Numbered
      <4>1. f \in Numbered
        BY <2>2, <2>4, <3>1, EarlyOrNumbered DEF Numbered
      <4>. QED
        BY <2>2, <2>3, <2>5, <3>1, <4>1 DEF KeptInv, LateKept
    <3>2. CASE g \in Early /\ g \in recorded
      <4>1. f \in Numbered => Kept(g, f)
        BY <2>2, <2>3, <3>2 DEF KeptInv, EarlyKept
      <4>2. f \in Early => Kept(g, f)
        BY <2>2, <2>4, <3>2 DEF KeptInv, EarlyKept
      <4>. QED
        BY <2>2, <4>1, <4>2, EarlyOrNumbered
    <3>3. CASE g \in Early /\ g \notin recorded
      BY <1>1, <2>1, <2>2, <2>4, <3>3 DEF KeptInv, PassKeeps
    <3>. QED
      BY <3>1, <3>2, <3>3, EarlyOrNumbered
  <2>. QED
    BY <2>4, <2>6 DEF Kept
<1>2. NeedsInv => NeverStuck
  BY <1>1 DEF NeverStuck
<1>. QED
  BY NeedsInvInit, NeedsInvStep, <1>2, PTL DEF Spec

-----------------------------------------------------------------------------
Statuses == AllValidStates \cup {Gone}

Runs == [at : {"idle", "files", "write", "prune", "apply"}, todo : SUBSET Id,
         now : Id \cup {Missing}, read : Statuses, seen : SUBSET Id, prune : BOOLEAN]

(* A sync has only files left, and at hand, that said something. *)
HasFiles(r) ==
  /\ r.at \in {"files", "write"} => r.todo \subseteq Parsed
  /\ r.at = "write" => r.now \in Parsed

(* The items and the runs have their types; a file about to be written is  *)
(* one that said something.                                                *)
ItemsAndRuns ==
  /\ item \in [Id -> Statuses] /\ run \in [Job -> Runs]
  /\ \A c \in Job : HasFiles(run[c])

LEMMA FilesSay ==
  ASSUME NEW i \in Parsed PROVE i \in Id /\ FileSays[i] \in Statuses
BY BreadcrumbsAssumption DEF Parsed, Statuses, AllValidStates

LEMMA RunsOn ==
  ASSUME ItemsAndRuns, NEW c \in Job, NEW new \in Runs, HasFiles(new),
         run' = [run EXCEPT ![c] = new],
         \/ item' = item
         \/ \E i \in Id, s \in Statuses : item' = [item EXCEPT ![i] = s]
  PROVE  ItemsAndRuns'
BY DEF ItemsAndRuns

LEMMA ItemsInit == BreadcrumbInit => ItemsAndRuns
BY DEF BreadcrumbInit, ItemsAndRuns, HasFiles, Stopped, Runs, Statuses

LEMMA ItemsStep ==
  ASSUME ItemsAndRuns, [BreadcrumbNext]_breadcrumbVars
  PROVE  ItemsAndRuns'
<1>1. /\ Stopped \in Runs /\ HasFiles(Stopped)
      /\ {Gone, "open", "closed"} \subseteq Statuses /\ HandMoves \subseteq Statuses
  BY BreadcrumbsAssumption
  DEF Stopped, Runs, HasFiles, Statuses, AllValidStates, CanonicalStates, LegacyStates
<1>2. ASSUME NEW i \in Id, Byhand(i) \/ CommitLands(i) PROVE ItemsAndRuns'
  BY <1>1, <1>2 DEF ItemsAndRuns, Byhand, FileByhand, UpdateByhand, DeleteByhand, CommitLands
<1>3. ASSUME NEW c \in Job, NEW p \in BOOLEAN,
             \/ Launch(c, "files", Parsed, p)
             \/ Launch(c, "apply", {i \in Filed : item[i] \notin IsTerminal} \cap commits, p)
      PROVE  ItemsAndRuns'
  <2>1. PICK stage \in {"files", "apply"}, jobs \in SUBSET Id :
          /\ Launch(c, stage, jobs, p)
          /\ stage = "files" => jobs = Parsed
    BY <1>3 DEF Parsed, Filed
  <2>2. PICK new : new = [Stopped EXCEPT !.at = stage, !.todo = jobs, !.prune = p]
    OBVIOUS
  <2>3. new \in Runs /\ HasFiles(new)
    BY <2>1, <2>2 DEF Stopped, Runs, HasFiles, Statuses
  <2>4. run' = [run EXCEPT ![c] = new] /\ item' = item
    BY <2>1, <2>2 DEF Launch
  <2> QED BY <2>3, <2>4, RunsOn
<1>4. ASSUME NEW c \in Job, NEW i \in Id, Look(c, i) PROVE ItemsAndRuns'
  <2>1. PICK r : r = run[c]
    OBVIOUS
  <2>2. PICK new : new = [r EXCEPT !.at = "write", !.now = i, !.read = item[i]]
    OBVIOUS
  <2>3. r \in Runs /\ HasFiles(r) /\ item[i] \in Statuses /\ r.at = "files" /\ i \in r.todo
    BY <1>4, <2>1 DEF Look, ItemsAndRuns
  <2>4. new \in Runs /\ HasFiles(new)
    BY <2>2, <2>3 DEF Runs, HasFiles
  <2>5. run' = [run EXCEPT ![c] = new] /\ item' = item
    BY <1>4, <2>1, <2>2 DEF Look, ItemsAndRuns
  <2> QED BY <2>4, <2>5, RunsOn
<1>5. ASSUME NEW c \in Job, Import(c) PROVE ItemsAndRuns'
  <2>1. PICK r : r = run[c]
    OBVIOUS
  <2>2. PICK i : i = r.now
    OBVIOUS
  <2>3. r \in Runs /\ HasFiles(r) /\ r.at = "write" /\ i \in Id /\ FileSays[i] \in Statuses
    BY <1>5, <2>1, <2>2, FilesSay DEF Import, ItemsAndRuns, HasFiles
  <2>4. PICK d : d = [r EXCEPT !.at = "files", !.todo = @ \ {i}, !.now = Missing, !.read = Gone]
    OBVIOUS
  <2>5. PICK e : e = [d EXCEPT !.seen = @ \cup {i}]
    OBVIOUS
  <2>6. d \in Runs /\ HasFiles(d)
    BY <1>1, <2>3, <2>4 DEF Runs, HasFiles
  <2>7. e \in Runs /\ HasFiles(e)
    BY <2>3, <2>5, <2>6 DEF Runs, HasFiles
  <2>8. \/ run' = [run EXCEPT ![c] = d] 
        \/ run' = [run EXCEPT ![c] = e]
        \/ run' = [run EXCEPT ![c] = Stopped]
    BY <1>5, <2>1, <2>2, <2>4, <2>5 DEF Import
  <2>9. \/ item' = item
        \/ \E s \in Statuses : item' = [item EXCEPT ![i] = s]
    <3>1. NewStatus(r.read, FileSays[i], item[i]) \in Statuses
      BY <2>3 DEF NewStatus, ItemsAndRuns
    <3> QED BY <1>5, <2>1, <2>2, <2>3, <3>1 DEF Import
  <2> QED BY <1>1, <2>3, <2>6, <2>7, <2>8, <2>9, RunsOn
<1>6. ASSUME NEW c \in Job, EndSync(c) PROVE ItemsAndRuns'
  <2>1. PICK r : r = run[c]
    OBVIOUS
  <2>2. PICK new : new = [r EXCEPT !.at = "prune", !.todo = Filed \ r.seen]
    OBVIOUS
  <2>3. r \in Runs
    BY <2>1 DEF ItemsAndRuns
  <2>4. new \in Runs /\ HasFiles(new)
    BY <2>2, <2>3 DEF Runs, HasFiles, Filed
  <2>5. item' = item /\ (run' = [run EXCEPT ![c] = new] \/ run' = [run EXCEPT ![c] = Stopped])
    BY <1>6, <2>1, <2>2 DEF EndSync, ItemsAndRuns
  <2> QED BY <1>1, <2>4, <2>5, RunsOn
<1>7. ASSUME NEW c \in Job, NEW i \in Id, PruneOne(c, i) \/ CloseOne(c, i) PROVE ItemsAndRuns'
  <2>1. PICK r : r = run[c]
    OBVIOUS
  <2>2. PICK new : new = [r EXCEPT !.todo = @ \ {i}]
    OBVIOUS
  <2>3. r \in Runs /\ HasFiles(r)
    BY <2>1 DEF ItemsAndRuns
  <2>4. new \in Runs /\ HasFiles(new)
    BY <2>2, <2>3 DEF Runs, HasFiles
  <2>5. run' = [run EXCEPT ![c] = new]
    BY <1>7, <2>1, <2>2 DEF PruneOne, CloseOne, ItemsAndRuns
  <2>6. item' = item \/ \E s \in Statuses : item' = [item EXCEPT ![i] = s]
    BY <1>1, <1>7 DEF PruneOne, CloseOne
  <2> QED BY <2>4, <2>5, <2>6, RunsOn
<1>8. ASSUME NEW c \in Job, Stops(c) PROVE ItemsAndRuns'
  BY <1>1, <1>8, RunsOn DEF Stops
<1>9. CASE UNCHANGED breadcrumbVars
  BY <1>9 DEF breadcrumbVars, ItemsAndRuns
<1> QED BY <1>2, <1>3, <1>4, <1>5, <1>6, <1>7, <1>8, <1>9 DEF BreadcrumbNext, Sync, Reconcile

(* Only an import takes a sync from a file it has read to the next, and an *)
(* import leaves what was read as closed or deferred where it is.          *)
LEMMA ImportsOnly ==
  ASSUME ItemsAndRuns, BreadcrumbNext, NEW c \in Job, run[c].at = "write", run'[c].at = "files"
  PROVE  Import(c)
<1>1. ASSUME NEW b \in Job, NEW new, run' = [run EXCEPT ![b] = new] PROVE b = c /\ new.at = "files"
  BY <1>1 DEF ItemsAndRuns
<1>2. run' # run
  OBVIOUS
<1>3. ASSUME NEW b \in Job, NEW stage, NEW jobs, NEW p, Launch(b, stage, jobs, p) PROVE FALSE
  BY <1>1, <1>3 DEF Launch
<1>4. ASSUME NEW b \in Job, Stops(b) PROVE FALSE
  BY <1>1, <1>4 DEF Stops, Stopped
<1>5. ASSUME NEW b \in Job, EndSync(b) PROVE FALSE
  BY <1>1, <1>5 DEF EndSync
<1>6. ASSUME NEW b \in Job, NEW i \in Id, Look(b, i) \/ PruneOne(b, i) \/ CloseOne(b, i) PROVE FALSE
  BY <1>6 DEF Look, PruneOne, CloseOne, ItemsAndRuns
<1>7. ASSUME NEW b \in Job, Import(b) PROVE b = c
  BY <1>1, <1>7 DEF Import
<1> QED BY <1>2, <1>3, <1>4, <1>5, <1>6, <1>7
        DEF BreadcrumbNext, Sync, Reconcile, Byhand, FileByhand, UpdateByhand, DeleteByhand, CommitLands

LEMMA DismissedStep ==
  ASSUME ItemsAndRuns, [BreadcrumbNext]_breadcrumbVars, NEW c \in Job, NEW i \in Id,
         run[c].at = "write", run[c].now = i, run[c].read \in {"closed", "deferred"},
         run' # run, run'[c].at = "files"
  PROVE  item'[i] = item[i]
<1>1. Import(c)
  BY ImportsOnly DEF breadcrumbVars
<1>2. run[c].read # Gone /\ NewStatus(run[c].read, FileSays[i], item[i]) = item[i]
  BY BreadcrumbsAssumption DEF NewStatus, AllValidStates, CanonicalStates, LegacyStates
<1> QED BY <1>1, <1>2 DEF Import, ItemsAndRuns

(* An item that a sync saw closed or deferred keeps its status through the *)
(* import of its file, whoever moves it meanwhile.                         *)
THEOREM DismissedItemStays == BreadcrumbSpec => DismissedStays
<1>1. ItemsAndRuns /\ [BreadcrumbNext]_breadcrumbVars => ItemsAndRuns'
  BY ItemsStep
<1>2. ItemsAndRuns /\ [BreadcrumbNext]_breadcrumbVars =>
        [\A c \in Job, i \in Id :
           (run[c].at = "write" /\ run[c].now = i /\ run[c].read \in {"closed", "deferred"}
             /\ run' # run /\ run'[c].at = "files") => item'[i] = item[i]]_breadcrumbVars
  BY DismissedStep
<1> QED BY ItemsInit, <1>1, <1>2, PTL DEF BreadcrumbSpec, DismissedStays
-----------------------------------------------------------------------------
(* Where a command is, and what every command keeps.                       *)
Commands ==
  [at : {"idle", "project", "register", "roots", "write"}, vm : Vm \cup {Nowhere},
   todo : SUBSET (Project \X Dir), dir : Dir \cup {Nowhere}, relocate : BOOLEAN,
   seen : [Dir -> Project \cup {Nowhere}], met : SUBSET Dir]

RegistryType ==
  /\ root \in [Project -> Dir \cup {Nowhere}]
  /\ rows \in [Vm -> [Dir -> Project \cup {Nowhere}]]
  /\ cmd \in [Caller -> Commands]
  /\ \A c \in Caller : cmd[c].at # "idle" => cmd[c].vm \in Vm

(* A machine has two rows for one directory only if it was registered      *)
(* twice at once.                                                          *)
TwiceAtOnce ==
  \A v \in Vm : \A d, e \in Registered(rows[v]) :
    Same(d, e) /\ d # e => <<v, MatchKey[d]>> \in atOnce

(* The rows a command met are still there: no row ever goes.               *)
MetStand ==
  \A c \in Caller : cmd[c].at # "idle" => cmd[c].met \subseteq Registered(rows[cmd[c].vm])

(* What a command is to write over it had seen to be nobody's or its own.  *)
Saw(seen, p, d, v) == seen[d] \in {Nowhere, p} \/ <<v, MatchKey[d]>> \in atOnce

LookedFirst ==
  \A c \in Caller : cmd[c].at # "idle" =>
    /\ \A job \in cmd[c].todo, d \in Dir : Saw(cmd[c].seen, job[1], d, cmd[c].vm)
    /\ cmd[c].at = "roots" => \A d \in Dir : cmd[c].seen[d] = Nowhere

RegistryInv == RegistryType /\ TwiceAtOnce /\ MetStand /\ LookedFirst

LEMMA SameRowIsDeepest ==
  ASSUME NEW v \in Vm, NEW d \in Dir, NEW r \in Registered(rows[v]), Same(r, d)
  PROVE  r \in Deepest(rows[v], d)
<1>1. r \in Dir /\ Within(d, r)
  BY DEF Within, Inside, Registered, Same
<1>2. ASSUME NEW q \in Registered(rows[v]), Within(d, q) PROVE Within(r, q)
  <2>1. q \in Dir
    BY DEF Registered
  <2>2. CASE Same(d, q)
    BY <1>1, <2>1, <2>2 DEF Within, Inside, Same
  <2>3. CASE \E u \in Under : Same(u[1], d) /\ Same(u[2], q)
    BY <1>1, <2>1, <2>3 DEF Within, Inside, Same
  <2>. QED
    BY <1>2, <2>1, <2>2, <2>3 DEF Within, Inside
<1>. QED
  BY <1>1, <1>2 DEF Deepest

(* What a command that is not refused has seen of the directory.           *)
LEMMA NotRefused ==
  ASSUME RegistryType, TwiceAtOnce, TreeAssumption, NEW v \in Vm, NEW d \in Dir, NEW p \in Project,
         ~Conflict(rows[v], d, p), NEW e \in Dir
  PROVE  Saw(OwnersOf(v, d), p, e, v)
<1>. DEFINE o == OwnersOf(v, d)[e]
<1>1. o = IF Same(d, e) THEN rows[v][e] ELSE Nowhere
  BY DEF OwnersOf
<1>2. CASE ~Same(d, e) \/ rows[v][e] = Nowhere
  BY <1>1, <1>2 DEF Saw
<1>3. CASE Same(d, e) /\ rows[v][e] # Nowhere
  <2>1. e \in Registered(rows[v]) /\ Same(e, d)
    BY <1>3 DEF Registered, Same
  <2>2. e \in Deepest(rows[v], d)
    BY <2>1, SameRowIsDeepest
  <2>3. PICK r \in Deepest(rows[v], d) : ~(Same(r, d) /\ rows[v][r] # p)
    BY <2>2 DEF Conflict
  <2>4. r \in Registered(rows[v]) /\ r \in Dir /\ Within(r, e) /\ Within(e, r)
    BY <2>1, <2>2, <2>3 DEF Deepest, Registered
  <2>5. Same(r, d)
    BY <2>1, <2>4, TreeAssumption DEF Same
  <2>6. CASE r = e
    BY <1>1, <1>3, <2>3, <2>5, <2>6 DEF Saw
  <2>7. CASE r # e
    BY <2>1, <2>4, <2>5, <2>7 DEF Saw, TwiceAtOnce, Same
  <2>. QED
    BY <2>6, <2>7
<1>. QED
  BY <1>2, <1>3

LEMMA RegistryInvInit ==
  ASSUME RegistryAssumption, RegistryInit PROVE RegistryInv
<1>1. NoCommand \in Commands /\ NoCommand.at = "idle"
  BY DEF NoCommand, Commands
<1>2. RegistryType
  BY <1>1, RegistryAssumption DEF RegistryInit, RegistryType
<1>3. \A c \in Caller : cmd[c].at = "idle"
  BY <1>1 DEF RegistryInit
<1>4. TwiceAtOnce
  BY DEF RegistryInit, TwiceAtOnce, Registered
<1>. QED
  BY <1>2, <1>3, <1>4 DEF RegistryInv, MetStand, LookedFirst

(* A command that starts.                                                  *)
LEMMA GiveKeeps ==
  ASSUME RegistryInv, RegistryAssumption, NEW c \in Caller, NEW v \in Vm, NEW where \in {"project", "register", "roots"},
         NEW jobs \in SUBSET (Project \X Dir), NEW d \in Dir \cup {Nowhere},
         NEW b \in BOOLEAN, Give(c, v, where, jobs, d, b),
         \A job \in jobs, e \in Dir : Saw(OwnersOf(v, d), job[1], e, v),
         where = "roots" => \A e \in Dir : OwnersOf(v, d)[e] = Nowhere
  PROVE  RegistryInv'
<1>. DEFINE k == [at |-> where, vm |-> v, todo |-> jobs, dir |-> d, relocate |-> b,
                  seen |-> OwnersOf(v, d), met |-> {}]
<1>1. cmd' = [cmd EXCEPT ![c] = k] /\ rows' = rows /\ root' = root /\ atOnce' = atOnce
  BY DEF Give
<1>2. OwnersOf(v, d) \in [Dir -> Project \cup {Nowhere}]
  BY DEF OwnersOf, RegistryInv, RegistryType
<1>3. k \in Commands /\ k.vm \in Vm
  BY <1>2 DEF Commands
<1>4. RegistryType'
  BY <1>1, <1>3 DEF RegistryInv, RegistryType
<1>5. k.met = {} /\ k.at = where /\ k.seen = OwnersOf(v, d) /\ k.todo = jobs /\ k.vm = v
  OBVIOUS
<1>. HIDE DEF k
<1>6. \A a \in Caller : cmd'[a] = IF a = c THEN k ELSE cmd[a]
  BY <1>1 DEF RegistryInv, RegistryType
<1>7. TwiceAtOnce' /\ MetStand'
  BY <1>1, <1>5, <1>6 DEF RegistryInv, TwiceAtOnce, MetStand, Registered
<1>8. LookedFirst'
  BY <1>1, <1>5, <1>6 DEF RegistryInv, LookedFirst, Saw
<1>. QED
  BY <1>4, <1>7, <1>8 DEF RegistryInv

(* A command that goes on, with no more to write than before, or ends.     *)
LEMMA GoesOn ==
  ASSUME RegistryInv, NEW c \in Caller, NEW k \in Commands,
         cmd' = [cmd EXCEPT ![c] = k], rows' = rows, atOnce' = atOnce,
         root' \in [Project -> Dir \cup {Nowhere}],
         \/ k.at = "idle"
         \/ /\ cmd[c].at # "idle" /\ k.at # "roots"
            /\ k.vm = cmd[c].vm /\ k.seen = cmd[c].seen
            /\ \/ k.todo \subseteq cmd[c].todo
               \/ cmd[c].at = "roots"
            /\ k.met \subseteq Registered(rows[k.vm])
  PROVE  RegistryInv'
<1>1. \A a \in Caller : cmd'[a] = IF a = c THEN k ELSE cmd[a]
  BY DEF RegistryInv, RegistryType
<1>2. RegistryType'
  BY <1>1 DEF RegistryInv, RegistryType, Commands
<1>3. TwiceAtOnce' /\ MetStand'
  BY <1>1 DEF RegistryInv, TwiceAtOnce, MetStand, Registered
<1>4. LookedFirst'
  BY <1>1 DEF RegistryInv, RegistryType, LookedFirst, Saw, Commands
<1>. QED
  BY <1>2, <1>3, <1>4 DEF RegistryInv

(* A directory is written.                                                 *)
LEMMA WriteKeeps ==
  ASSUME RegistryInv, RegistryAssumption, NEW c \in Caller, Upsert(c)
  PROVE  /\ RegistryInv'
         /\ \A v \in Vm, d \in Dir :
              rows[v][d] # Nowhere /\ rows'[v][d] # rows[v][d] /\ <<v, MatchKey[d]>> \notin atOnce =>
                v = cmd[c].vm /\ cmd[c].seen[d] # rows[v][d] /\ cmd'[c] # cmd[c]
<1>. DEFINE v == cmd[c].vm
<1>1. PICK job \in cmd[c].todo : \E e \in Spellings(c, job[2]) :
        /\ rows' = [rows EXCEPT ![v][e] = job[1]]
        /\ atOnce' = IF \E r \in Registered(rows[v]) \ cmd[c].met : MatchKey[r] = MatchKey[e]
                        THEN atOnce \cup {<<v, MatchKey[e]>>} ELSE atOnce
        /\ cmd' = [cmd EXCEPT ![c] = IF cmd[c].todo = {job} THEN NoCommand
                     ELSE [cmd[c] EXCEPT !.at = "register", !.todo = cmd[c].todo \ {job}, !.met = {}]]
  BY DEF Upsert
<1>0. PICK e \in Spellings(c, job[2]) :
        /\ rows' = [rows EXCEPT ![v][e] = job[1]]
        /\ atOnce' = IF \E r \in Registered(rows[v]) \ cmd[c].met : MatchKey[r] = MatchKey[e]
                        THEN atOnce \cup {<<v, MatchKey[e]>>} ELSE atOnce
        /\ cmd' = [cmd EXCEPT ![c] = IF cmd[c].todo = {job} THEN NoCommand
                     ELSE [cmd[c] EXCEPT !.at = "register", !.todo = cmd[c].todo \ {job}, !.met = {}]]
  BY <1>1
<1>2. /\ cmd[c] \in Commands /\ cmd[c].at = "write" /\ v \in Vm /\ job \in Project \X Dir
      /\ cmd[c].met \subseteq Dir
  BY <1>0 DEF Upsert, RegistryInv, RegistryType, Commands
<1>3. e \in Dir /\ Same(e, job[2])
  BY <1>0, <1>2 DEF Spellings, Same
<1>4. job[1] \in Project /\ job[1] # Nowhere
  BY <1>2, RegistryAssumption
<1>5. /\ rows' \in [Vm -> [Dir -> Project \cup {Nowhere}]]
      /\ \A u \in Vm, d \in Dir : rows'[u][d] = IF u = v /\ d = e THEN job[1] ELSE rows[u][d]
  BY <1>0, <1>2, <1>3, <1>4 DEF RegistryInv, RegistryType
<1>. DEFINE k == IF cmd[c].todo = {job} THEN NoCommand
                   ELSE [cmd[c] EXCEPT !.at = "register", !.todo = cmd[c].todo \ {job}, !.met = {}]
<1>6. /\ k \in Commands /\ k.met = {} /\ k.at \in {"idle", "register"}
      /\ k.at # "idle" => /\ k.vm = v /\ k.seen = cmd[c].seen
                          /\ k.todo \subseteq cmd[c].todo
  BY <1>2 DEF Commands, NoCommand
<1>. HIDE DEF k
<1>7. \A a \in Caller : cmd'[a] = IF a = c THEN k ELSE cmd[a]
  <2>1. cmd \in [Caller -> Commands]
    BY DEF RegistryInv, RegistryType
  <2>2. CASE cmd[c].todo = {job}
    BY <1>0, <2>1, <2>2 DEF k
  <2>3. CASE cmd[c].todo # {job}
    BY <1>0, <2>1, <2>3 DEF k
  <2>. QED
    BY <2>2, <2>3
<1>8. cmd' \in [Caller -> Commands]
  BY <1>0, <1>6, <1>7 DEF RegistryInv, RegistryType, k
<1>9. RegistryType'
  BY <1>2, <1>5, <1>6, <1>7, <1>8 DEF RegistryInv, RegistryType, Upsert
<1>10. \A u \in Vm : Registered(rows'[u]) = IF u = v THEN Registered(rows[u]) \cup {e} ELSE Registered(rows[u])
  BY <1>3, <1>4, <1>5 DEF Registered
<1>11. MetStand'
  BY <1>6, <1>7, <1>9, <1>10 DEF RegistryInv, RegistryType, MetStand
<1>12. atOnce \subseteq atOnce'
  BY <1>0
<1>13. TwiceAtOnce'
  <2>. SUFFICES ASSUME NEW u \in Vm, NEW d \in Registered(rows'[u]), NEW f \in Registered(rows'[u]),
                       Same(d, f), d # f
                PROVE  <<u, MatchKey[d]>> \in atOnce'
    BY DEF TwiceAtOnce, Registered, Same
  <2>1. CASE d \in Registered(rows[u]) /\ f \in Registered(rows[u])
    BY <2>1, <1>12 DEF RegistryInv, TwiceAtOnce
  <2>2. CASE ~(d \in Registered(rows[u]) /\ f \in Registered(rows[u]))
    <3>1. PICK g \in Registered(rows[u]) : u = v /\ g \in {d, f} /\ g # e /\ e \in {d, f}
                                           /\ e \notin Registered(rows[v])
      <4>1. u = v /\ e \notin Registered(rows[v]) /\ (d = e \/ f = e)
        BY <2>2, <1>10
      <4>2. CASE d = e
        <5>1. f \in Registered(rows[u]) /\ f # e
          BY <4>1, <4>2, <1>10
        <5>. QED
          BY <4>1, <4>2, <5>1
      <4>3. CASE f = e
        <5>1. d \in Registered(rows[u]) /\ d # e
          BY <4>1, <4>3, <1>10
        <5>. QED
          BY <4>1, <4>3, <5>1
      <4>. QED
        BY <4>1, <4>2, <4>3
    <3>2. e \notin cmd[c].met
      BY <3>1, <1>2 DEF RegistryInv, MetStand
    <3>3. \A h \in cmd[c].met : ~Same(h, job[2])
      BY <3>2, <1>0 DEF Spellings
    <3>4. MatchKey[g] = MatchKey[e] /\ g \notin cmd[c].met
      BY <3>1, <3>3, <1>3 DEF Same
    <3>. QED
      BY <3>1, <3>4, <1>0 DEF Same
  <2>. QED
    BY <2>1, <2>2
<1>14. LookedFirst'
  BY <1>2, <1>6, <1>7, <1>12 DEF RegistryInv, LookedFirst, Saw
<1>15. Saw(cmd[c].seen, job[1], e, v)
  BY <1>0, <1>2, <1>3 DEF RegistryInv, LookedFirst
<1>16. cmd'[c] # cmd[c]
  BY <1>2, <1>6, <1>7
<1>. QED
  BY <1>5, <1>9, <1>11, <1>13, <1>14, <1>15, <1>16 DEF RegistryInv, Saw

LEMMA RegistryStep ==
  ASSUME RegistryAssumption, TreeAssumption, RegistryInv, [RegistryNext]_registryVars
  PROVE  /\ RegistryInv'
         /\ \A v \in Vm, d \in Dir :
              rows[v][d] # Nowhere /\ rows'[v][d] # rows[v][d] /\ <<v, MatchKey[d]>> \notin atOnce =>
                \E c \in Caller : /\ cmd[c].vm = v /\ cmd[c].at = "write" /\ cmd'[c] # cmd[c]
                                  /\ cmd[c].seen[d] # rows[v][d]
<1>1. CASE UNCHANGED registryVars
  BY <1>1 DEF registryVars, RegistryInv, RegistryType, TwiceAtOnce, MetStand, LookedFirst, Saw, Registered
<1>2. ASSUME NEW c \in Caller, NEW v \in Vm, Scan(c, v)
      PROVE  RegistryInv' /\ rows' = rows
  <2>1. Planned(v) \in SUBSET (Project \X Dir)
    BY RegistryAssumption DEF Planned
  <2>2. \A e \in Dir : OwnersOf(v, Nowhere)[e] = Nowhere
    BY RegistryAssumption DEF OwnersOf
  <2>3. \A job \in Planned(v), e \in Dir : Saw(OwnersOf(v, Nowhere), job[1], e, v)
    BY <2>2 DEF Saw
  <2>4. Give(c, v, "register", Planned(v), Nowhere, FALSE)
    BY <1>2 DEF Scan
  <2>5. RegistryInv'
    BY <2>1, <2>3, <2>4, RegistryAssumption, GiveKeeps
  <2>. QED
    BY <2>4, <2>5 DEF Give
<1>3. ASSUME NEW c \in Caller, NEW v \in Vm, NEW d \in Dir, Resolve(c, v, d)
      PROVE  RegistryInv' /\ rows' = rows
  <2>1. \A e \in Dir : OwnersOf(v, d)[e] = Nowhere
    <3>. SUFFICES ASSUME NEW e \in Dir, Same(d, e), rows[v][e] # Nowhere PROVE FALSE
      BY DEF OwnersOf
    <3>. QED
      BY <1>3, SameRowIsDeepest DEF Resolve, Registered, Same
  <2>. QED
    BY <1>3, <2>1, GiveKeeps DEF Resolve, Give
<1>4. ASSUME NEW c \in Caller, NEW v \in Vm, NEW d \in Dir, NEW p \in Project, AddCheckout(c, v, p, d)
      PROVE  RegistryInv' /\ rows' = rows
  <2>1. \A e \in Dir : Saw(OwnersOf(v, d), p, e, v)
    BY <1>4, TreeAssumption, NotRefused DEF AddCheckout, RegistryInv
  <2>2. {<<p, d>>} \in SUBSET (Project \X Dir) /\ \A job \in {<<p, d>>} : job[1] = p
    OBVIOUS
  <2>3. \A job \in {<<p, d>>}, e \in Dir : Saw(OwnersOf(v, d), job[1], e, v)
    BY <2>1, <2>2
  <2>4. Give(c, v, "register", {<<p, d>>}, d, FALSE)
    BY <1>4 DEF AddCheckout
  <2>5. RegistryInv'
    BY <2>2, <2>3, <2>4, RegistryAssumption, GiveKeeps
  <2>. QED
    BY <2>4, <2>5 DEF Give
<1>5. ASSUME NEW c \in Caller, NEW v \in Vm, NEW d \in Dir, NEW p \in Project, NEW b \in BOOLEAN,
             InitRepo(c, v, p, d, b)
      PROVE  RegistryInv' /\ rows' = rows
  <2>1. \A e \in Dir : Saw(OwnersOf(v, d), p, e, v)
    BY <1>5, TreeAssumption, NotRefused DEF InitRepo, RegistryInv
  <2>2. {<<p, d>>} \in SUBSET (Project \X Dir) /\ \A job \in {<<p, d>>} : job[1] = p
    OBVIOUS
  <2>3. \A job \in {<<p, d>>}, e \in Dir : Saw(OwnersOf(v, d), job[1], e, v)
    BY <2>1, <2>2
  <2>4. Give(c, v, "project", {<<p, d>>}, d, b)
    BY <1>5 DEF InitRepo
  <2>5. RegistryInv'
    BY <2>2, <2>3, <2>4, RegistryAssumption, GiveKeeps
  <2>. QED
    BY <2>4, <2>5 DEF Give
<1>6. ASSUME NEW c \in Caller, RegisterProject(c) \/ Heal(c) \/ Match(c) \/ Dies(c)
      PROVE  RegistryInv' /\ rows' = rows
  <2>. /\ cmd[c] \in Commands /\ cmd \in [Caller -> Commands]
       /\ root \in [Project -> Dir \cup {Nowhere}] /\ cmd[c].at # "idle"
    BY <1>6 DEF RegistryInv, RegistryType, RegisterProject, Heal, Match, Dies
  <2>1. CASE RegisterProject(c)
    <3>. DEFINE k == [cmd[c] EXCEPT !.at = "register"]
    <3>1. k \in Commands /\ k.at = "register" /\ k.vm = cmd[c].vm /\ k.seen = cmd[c].seen
          /\ k.todo = cmd[c].todo /\ k.met = cmd[c].met
      BY DEF Commands
    <3>2. cmd' = [cmd EXCEPT ![c] = k] /\ rows' = rows /\ atOnce' = atOnce
      BY <2>1 DEF RegisterProject
    <3>3. root' \in [Project -> Dir \cup {Nowhere}]
      BY <2>1 DEF RegisterProject, Commands
    <3>4. k.met \subseteq Registered(rows[k.vm])
      BY <3>1 DEF RegistryInv, MetStand
    <3>. HIDE DEF k
    <3>. QED
      BY <3>1, <3>2, <3>3, <3>4, GoesOn
  <2>2. CASE Heal(c)
    <3>1. rows' = rows /\ atOnce' = atOnce /\ root' = root
      BY <2>2 DEF Heal
    <3>2. ASSUME NEW p \in AtRoot(cmd[c].dir), root[p] \in On[cmd[c].vm],
                 cmd' = [cmd EXCEPT ![c].at = "register", ![c].todo = {<<p, root[p]>>}]
          PROVE  RegistryInv'
      <4>. DEFINE k == [cmd[c] EXCEPT !.at = "register", !.todo = {<<p, root[p]>>}]
      <4>1. cmd[c].vm \in Vm /\ p \in Project
        BY <3>2 DEF RegistryInv, RegistryType, AtRoot
      <4>2. root[p] \in Dir
        BY <3>2, <4>1, RegistryAssumption
      <4>3. k \in Commands /\ k.at = "register" /\ k.vm = cmd[c].vm /\ k.seen = cmd[c].seen
            /\ k.met = cmd[c].met
        <5>1. {<<p, root[p]>>} \in SUBSET (Project \X Dir)
          BY <4>1, <4>2
        <5>. QED
          BY <5>1 DEF Commands
      <4>4. cmd' = [cmd EXCEPT ![c] = k]
        BY <3>2
      <4>5. k.met \subseteq Registered(rows[k.vm])
        BY <4>3 DEF RegistryInv, MetStand
      <4>6. cmd[c].at = "roots"
        BY <2>2 DEF Heal
      <4>. HIDE DEF k
      <4>. QED
        BY <3>1, <4>3, <4>4, <4>5, <4>6, GoesOn
    <3>3. CASE cmd' = [cmd EXCEPT ![c] = NoCommand]
      <4>1. NoCommand \in Commands /\ NoCommand.at = "idle"
        BY DEF NoCommand, Commands
      <4>. QED
        BY <3>1, <3>3, <4>1, GoesOn
    <3>. QED
      BY <2>2, <3>1, <3>2, <3>3 DEF Heal
  <2>3. CASE Match(c)
    <3>. DEFINE k == [cmd[c] EXCEPT !.at = "write", !.met = Registered(rows[cmd[c].vm])]
    <3>1. k \in Commands /\ k.at = "write" /\ k.vm = cmd[c].vm /\ k.seen = cmd[c].seen
          /\ k.todo = cmd[c].todo /\ k.met = Registered(rows[cmd[c].vm])
      BY DEF Commands, Registered
    <3>2. cmd' = [cmd EXCEPT ![c] = k] /\ rows' = rows /\ atOnce' = atOnce /\ root' = root
      BY <2>3 DEF Match
    <3>. HIDE DEF k
    <3>. QED
      BY <3>1, <3>2, GoesOn
  <2>4. CASE Dies(c)
    <3>1. NoCommand \in Commands /\ NoCommand.at = "idle"
      BY DEF NoCommand, Commands
    <3>2. rows' = rows /\ atOnce' = atOnce /\ root' = root /\ cmd' = [cmd EXCEPT ![c] = NoCommand]
      BY <2>4 DEF Dies
    <3>. QED
      BY <3>1, <3>2, GoesOn
  <2>. QED
    BY <1>6, <2>1, <2>2, <2>3, <2>4
<1>7. ASSUME NEW c \in Caller, Upsert(c)
      PROVE  /\ RegistryInv' /\ cmd[c].at = "write"
             /\ \A v \in Vm, d \in Dir :
                  rows[v][d] # Nowhere /\ rows'[v][d] # rows[v][d] /\ <<v, MatchKey[d]>> \notin atOnce =>
                    v = cmd[c].vm /\ cmd[c].seen[d] # rows[v][d] /\ cmd'[c] # cmd[c]
  BY <1>7, WriteKeeps DEF Upsert
<1>8. CASE RegistryNext
  <2>1. PICK c \in Caller :
          \/ \E v \in Vm :
               \/ Scan(c, v)
               \/ \E d \in Dir : Resolve(c, v, d)
               \/ \E d \in Dir, p \in Project :
                    AddCheckout(c, v, p, d) \/ \E b \in BOOLEAN : InitRepo(c, v, p, d, b)
          \/ RegisterProject(c) \/ Heal(c) \/ Match(c) \/ Upsert(c) \/ Dies(c)
    BY <1>8 DEF RegistryNext
  <2>2. CASE Upsert(c)
    BY <1>7, <2>2
  <2>3. CASE ~Upsert(c)
    <3>1. RegistryInv' /\ rows' = rows
      BY <1>2, <1>3, <1>4, <1>5, <1>6, <2>1, <2>3
    <3>. QED
      BY <3>1
  <2>. QED
    BY <2>2, <2>3
<1>. QED
  BY <1>1, <1>8 DEF registryVars

(* Theorem: a directory changes hands on a machine only by a command that  *)
(* had looked before the one it is taken from was registered there, or     *)
(* where it had been registered twice at once - for any set of machines,   *)
(* projects, directories and commands.                                     *)
THEOREM MovesAreUnseen == RegistrySpec => MovedUnseen
<1>1. RegistryInit => RegistryInv
  BY RegistryAssumption, RegistryInvInit
<1>2. RegistryInv /\ [RegistryNext]_registryVars => RegistryInv'
  BY RegistryAssumption, TreeAssumption, RegistryStep
<1>3. RegistryInv /\ [RegistryNext]_registryVars =>
        [\A v \in Vm, d \in Dir :
           (rows[v][d] # Nowhere /\ rows'[v][d] # rows[v][d] /\ <<v, MatchKey[d]>> \notin atOnce) =>
             \E c \in Caller : /\ cmd[c].vm = v /\ cmd[c].at = "write" /\ cmd'[c] # cmd[c]
                             /\ cmd[c].seen[d] # rows[v][d]]_registryVars
  BY RegistryAssumption, TreeAssumption, RegistryStep
<1>. QED
  BY <1>1, <1>2, <1>3, PTL DEF RegistrySpec, MovedUnseen
-----------------------------------------------------------------------------
(* What the installer's state is made of.                                  *)
Shipped   == Texts \ UserText
Values    == Value \cup {None}
Manifests ==
  [written : BOOLEAN, text : [Tracked -> Shipped \cup {None}], keys : SUBSET Key,
   plugin : BOOLEAN]
Settings  == [groups : [Event -> Seq(Texts)], keys : [Key -> Values]]

HarnessType ==
  /\ harness \in Harnesses /\ edition \in Editions
  /\ disk \in [OurFiles -> Seq(Texts)] /\ groups \in [Event -> Seq(Texts)]
  /\ keys \in [Key -> Values] /\ block \in [Key -> Values]
  /\ plugin \in [files : Nat, entry : BOOLEAN]
  /\ manifest \in Manifests /\ prev \in Manifests /\ next \in Manifests
  /\ copy \in Settings /\ todo \in SUBSET OurFiles /\ env \in [Key -> Values]
  /\ ours \in SUBSET Items /\ theirs \in [Items -> Texts \cup Values]
  /\ conflict \in BOOLEAN
  /\ ~Hooked => \A e \in Event :
       manifest.text[e] = None /\ prev.text[e] = None /\ next.text[e] = None

LEMMA ShippedFacts ==
  ASSUME HarnessAssumption, edition \in Editions, NEW i \in Tracked
  PROVE  /\ ShippedText(i) \in Shipped \cup {None}
         /\ Hooked /\ i \in Event => ShippedText(i) \in Shipped
         /\ None \notin Texts /\ Shipped \subseteq Texts
<1>1. None \notin Texts /\ Shipped \subseteq Texts
  BY HarnessAssumption DEF Texts, Shipped
<1>2. Ships[edition].text[i] # None => Ships[edition].text[i] \in Texts
  BY DEF Texts
<1>3. Ships[edition].text[i] \notin UserText
  BY HarnessAssumption
<1>4. Ships[edition].text[i] \in Shipped \cup {None}
  BY <1>2, <1>3 DEF Shipped
<1>5. Hooked /\ i \in Event => ShippedText(i) = Ships[edition].text[i] /\ ShippedText(i) # None
  BY HarnessAssumption DEF ShippedText, OurFiles
<1>. QED
  BY <1>1, <1>4, <1>5 DEF ShippedText

(* What becomes of a file, or of the one hook group.                       *)
Settled(there, rec, new, o) ==
  /\ o.there \in {there, <<new>>} /\ o.said \in {None, rec, new} /\ o.clash \in BOOLEAN
  /\ o.there # there =>
       /\ o.there = <<new>> /\ o.said = new
       /\ there = <<>> \/ (there = <<rec>> /\ rec # None)
  /\ rec = None /\ there # <<>> => o.there = there /\ o.said = None
  /\ rec # None => o.said # None
  /\ o.clash = FALSE => o.there = <<new>> /\ o.said = new

LEMMA InstallOutcome ==
  ASSUME NEW there, NEW rec, NEW new, new # None,
         NEW o, o = InstallTracked(there, rec, new)
  PROVE  Settled(there, rec, new, o)
<1>1. CASE there = <<>>
  <2>1. o.there = <<new>> /\ o.said = new /\ o.clash = FALSE
    BY <1>1 DEF InstallTracked, Outcome
  <2>. QED
    BY <1>1, <2>1 DEF Settled
<1>2. CASE there # <<>> /\ rec = None
  <2>1. o.there = there /\ o.said = None /\ o.clash = TRUE
    BY <1>2 DEF InstallTracked, Outcome
  <2>. QED
    BY <1>2, <2>1 DEF Settled
<1>3. CASE there = <<new>> /\ rec # None
  <2>1. o.there = there /\ o.said = new /\ o.clash = FALSE
    BY <1>3 DEF InstallTracked, Outcome
  <2>. QED
    BY <1>3, <2>1 DEF Settled
<1>4. CASE there \notin {<<>>, <<new>>, <<rec>>} /\ rec # None
  <2>1. o.there = there /\ o.said = rec /\ o.clash = TRUE
    BY <1>4 DEF InstallTracked, Outcome
  <2>. QED
    BY <1>4, <2>1 DEF Settled
<1>5. CASE there = <<rec>> /\ rec \notin {new, None}
  <2>1. o.there = <<new>> /\ o.said = new /\ o.clash = FALSE
    BY <1>5 DEF InstallTracked, Outcome
  <2>. QED
    BY <1>5, <2>1 DEF Settled
<1>. QED
  BY <1>1, <1>2, <1>3, <1>4, <1>5

(* What becomes of the groups of one event, on the way in.                 *)
LEMMA WireOutcome ==
  ASSUME NEW there, NEW rec, NEW new, new # None, HarnessAssumption, Hooked,
         harness \in Harnesses, NEW o, o = WireHook(there, rec, new)
  PROVE  Settled(there, rec, new, o)
<1>1. harness \in {"claude", "codex", "agy", "hermes"}
  BY DEF HarnessAssumption, Hooked
<1>2. CASE o = InstallTracked(there, rec, new)
  BY <1>2, InstallOutcome
<1>3. CASE o = Outcome(there, rec, TRUE)
  BY <1>3 DEF Outcome, Settled
<1>. QED
  BY <1>1, <1>2, <1>3 DEF WireHook, MergeOwnedGroups, WireAgyHook, WireHermesHook

(* ... and on the way out: the one group that is as recorded goes.         *)
Has(there, t) == \E n \in DOMAIN there : there[n] = t

Unwired(there, rec, o) ==
  /\ o.said \in {None, rec}
  /\ o.there = there /\ there # <<>> => o.said = rec
  /\ \A m \in DOMAIN there : there[m] # rec => Has(o.there, there[m])

LEMMA UnwireOutcome ==
  ASSUME NEW S, NEW there \in Seq(S), NEW rec, HarnessAssumption, Hooked,
         harness \in Harnesses, NEW o, o = UnwireHook(there, rec)
  PROVE  o.there \in Seq(S) /\ Unwired(there, rec, o)
<1>0. Len(there) \in Nat /\ DOMAIN there = 1..Len(there)
  OBVIOUS
<1>1. o = RemoveOwnedGroups(there, rec)
  <2>1. harness \in {"claude", "codex", "agy", "hermes"}
    BY DEF HarnessAssumption, Hooked
  <2>. QED
    BY <2>1 DEF UnwireHook, UnwireAgyHook, UnwireHermesHook
<1>2. CASE \E n \in DOMAIN there : OnlyMatch(there, rec, n)
  <2>. DEFINE n == CHOOSE n \in DOMAIN there : OnlyMatch(there, rec, n)
              rest == SubSeq(there, 1, n - 1) \o SubSeq(there, n + 1, Len(there))
  <2>1. n \in DOMAIN there /\ OnlyMatch(there, rec, n)
    BY <1>2
  <2>2. o = Outcome(rest, None, FALSE)
    BY <1>1, <1>2 DEF RemoveOwnedGroups
  <2>. HIDE DEF n
  <2>3. n \in 1..Len(there) /\ Len(there) \in Nat
    BY <2>1, <1>0
  <2>. DEFINE before == SubSeq(there, 1, n - 1)
              after  == SubSeq(there, n + 1, Len(there))
  <2>a. /\ before \in Seq(S) /\ Len(before) = n - 1
        /\ \A k \in 1..(n - 1) : before[k] = there[k]
    <3>1. \A k \in 1..(n - 1) : there[k] \in S
      BY <2>3
    <3>. QED
      BY <2>3, <3>1, SubSeqProperties
  <2>b. /\ after \in Seq(S) /\ Len(after) = Len(there) - n
        /\ \A k \in 1..(Len(there) - n) : after[k] = there[n + k]
    <3>1. \A k \in (n + 1)..Len(there) : there[k] \in S
      BY <2>3
    <3>2. after \in Seq(S) /\ Len(after) = IF n + 1 <= Len(there) THEN Len(there) - (n + 1) + 1 ELSE 0
      BY <2>3, <3>1, SubSeqProperties
    <3>3. \A k \in 1..(Len(there) - (n + 1) + 1) : after[k] = there[n + 1 + k - 1]
      BY <2>3, <3>1, SubSeqProperties
    <3>. HIDE DEF after
    <3>. QED
      BY <2>3, <3>2, <3>3
  <2>. HIDE DEF before, after
  <2>c. rest = before \o after
    BY DEF before, after
  <2>. HIDE DEF rest
  <2>d. /\ rest \in Seq(S) /\ Len(rest) = Len(before) + Len(after)
        /\ \A k \in 1..(Len(before) + Len(after)) :
              rest[k] = IF k <= Len(before) THEN before[k] ELSE after[k - Len(before)]
    <3>1. before \in Seq(S) /\ after \in Seq(S)
      BY <2>a, <2>b
    <3>2. /\ before \o after \in Seq(S)
          /\ Len(before \o after) = Len(before) + Len(after)
          /\ \A k \in 1..(Len(before) + Len(after)) :
                (before \o after)[k] = IF k <= Len(before) THEN before[k] ELSE after[k - Len(before)]
      BY <3>1, ConcatProperties, Zenon
    <3>. QED
      BY <3>2, <2>c
  <2>5. /\ rest \in Seq(S) /\ Len(rest) = Len(there) - 1
        /\ DOMAIN rest = 1..(Len(there) - 1)
        /\ \A k \in 1..(Len(there) - 1) : rest[k] = IF k <= n - 1 THEN before[k] ELSE after[k - (n - 1)]
    BY <2>3, <2>a, <2>b, <2>d
  <2>6. \A m \in DOMAIN there : m # n =>
          \E k \in DOMAIN rest : rest[k] = there[m]
    <3>1. ASSUME NEW m \in 1..(n - 1) PROVE m \in DOMAIN rest /\ rest[m] = there[m]
      BY <2>3, <2>a, <2>b, <2>5
    <3>2. ASSUME NEW m \in (n + 1)..Len(there) PROVE m - 1 \in DOMAIN rest /\ rest[m - 1] = there[m]
      <4>1. /\ m \in Int /\ m - 1 \in 1..(Len(there) - 1) /\ ~(m - 1 <= n - 1)
            /\ m - n \in 1..(Len(there) - n) /\ (m - 1) - (n - 1) = m - n /\ n + (m - n) = m
        BY <2>3
      <4>2. rest[m - 1] = after[m - n]
        BY <4>1, <2>5
      <4>3. after[m - n] = there[m]
        BY <4>1, <2>b
      <4>. QED
        BY <4>1, <4>2, <4>3, <2>5
    <3>3. ASSUME NEW m \in 1..Len(there), m # n
          PROVE  m \in 1..(n - 1) \/ m \in (n + 1)..Len(there)
      BY <2>3, <3>3
    <3>. QED
      BY <1>0, <3>1, <3>2, <3>3
  <2>7. \A m \in DOMAIN there : there[m] # rec => m # n
    BY <2>1 DEF OnlyMatch
  <2>8. o.there = rest /\ o.said = None /\ rest # there
    BY <2>2, <2>3, <2>5 DEF Outcome
  <2>. QED
    BY <2>5, <2>6, <2>7, <2>8 DEF Has, Unwired
<1>3. CASE there = <<>> /\ ~\E n \in DOMAIN there : OnlyMatch(there, rec, n)
  <2>1. o = Outcome(there, None, FALSE)
    BY <1>1, <1>3 DEF RemoveOwnedGroups
  <2>2. o.there = there /\ o.said = None
    BY <2>1 DEF Outcome
  <2>. QED
    BY <1>3, <2>2 DEF Has, Unwired
<1>4. CASE there # <<>> /\ ~\E n \in DOMAIN there : OnlyMatch(there, rec, n)
  <2>1. o = Outcome(there, rec, TRUE)
    BY <1>1, <1>4 DEF RemoveOwnedGroups
  <2>2. o.there = there /\ o.said = rec
    BY <2>1 DEF Outcome
  <2>. QED
    BY <1>4, <2>2 DEF Has, Unwired
<1>. QED
  BY <1>2, <1>3, <1>4
-----------------------------------------------------------------------------
LEMMA BlankFacts ==
  /\ Blank \in Manifests /\ Unset \in [Key -> Values]
  /\ Nothing(OurFiles) \in [OurFiles -> Seq(Texts)]
  /\ [groups |-> Nothing(Event), keys |-> Unset] \in Settings
  /\ Blank.keys = {} /\ \A i \in Tracked : Blank.text[i] = None
BY DEF Blank, Manifests, Unset, Values, Nothing, Settings, Tracked

LEMMA HarnessTypeInit ==
  ASSUME HarnessAssumption, HarnessInit PROVE HarnessType
<1>1. edition \in Editions
  BY HarnessAssumption DEF HarnessInit
<1>2. plugin \in [files : Nat, entry : BOOLEAN]
  BY DEF HarnessInit
<1>3. ours \in SUBSET Items /\ theirs \in [Items -> Texts \cup Values]
  BY DEF HarnessInit, Values
<1>4. groups \in [Event -> Seq(Texts)]
  BY DEF HarnessInit, Nothing
<1>5. \A e \in Event : e \in Tracked
  BY DEF Tracked
<1>. QED
  BY <1>1, <1>2, <1>3, <1>4, <1>5, BlankFacts DEF HarnessInit, HarnessType

(* The steps of a file, on the way in and on the way out.                  *)
LEMMA FileKeepsType ==
  ASSUME HarnessAssumption, HarnessType, NEW f \in OurFiles,
         Place(f) \/ KeepOrphan(f) \/ RemoveFile(f)
  PROVE  HarnessType'
<1>0. f \in Tracked /\ f \in Items /\ f \notin Event /\ todo' \in SUBSET OurFiles
  BY HarnessAssumption DEF Tracked, Items, HarnessType, Place, KeepOrphan, RemoveFile, Turn
<1>a. ASSUME next'.text \in {next.text, [next.text EXCEPT ![f] = next'.text[f]]}
      PROVE  \A e \in Event : next'.text[e] = next.text[e]
  <2>1. \A e \in Event : e \in Tracked /\ e # f
    BY <1>0 DEF Tracked
  <2>. QED
    BY <1>a, <2>1 DEF HarnessType, Manifests
<1>1. CASE Place(f)
  <2>1. PICK o : o = InstallTracked(disk[f], prev.text[f], ShippedText(f))
    OBVIOUS
  <2>2. ShippedText(f) # None /\ ShippedText(f) \in Shipped /\ Shipped \subseteq Texts
    BY <1>0, <1>1, ShippedFacts DEF Place, HarnessType
  <2>3. Settled(disk[f], prev.text[f], ShippedText(f), o)
    BY <2>1, <2>2, InstallOutcome
  <2>4. disk[f] \in Seq(Texts) /\ prev.text[f] \in Shipped \cup {None}
    BY <1>0 DEF HarnessType, Manifests
  <2>5. o.there \in Seq(Texts) /\ o.said \in Shipped \cup {None}
    <3>1. <<ShippedText(f)>> \in Seq(Texts)
      BY <2>2
    <3>. QED
      BY <2>2, <2>3, <2>4, <3>1 DEF Settled
  <2>6. /\ disk' = [disk EXCEPT ![f] = o.there]
        /\ next' = [next EXCEPT !.text[f] = o.said]
        /\ ours' = Touched(f, disk[f], o)
        /\ UNCHANGED <<harness, edition, groups, keys, block, plugin, manifest, step, prev, copy,
                       env, theirs, quiet, crashed, raced, edits>>
    BY <1>1, <2>1 DEF Place
  <2>7. next' \in Manifests
    BY <2>5, <2>6, <1>0 DEF HarnessType, Manifests
  <2>8. ours' \in SUBSET Items
    BY <2>6, <1>0 DEF HarnessType, Touched
  <2>9. next'.text = [next.text EXCEPT ![f] = o.said]
    BY <2>6 DEF HarnessType, Manifests
  <2>10. conflict' \in BOOLEAN
    BY <1>1 DEF Place
  <2>. QED
    <3>1. next'.text = [next.text EXCEPT ![f] = next'.text[f]]
      BY <1>0, <2>9 DEF HarnessType, Manifests
    <3>2. \A e \in Event : next'.text[e] = next.text[e]
      BY <1>a, <3>1
    <3>. QED
      BY <1>0, <2>5, <2>6, <2>7, <2>8, <2>10, <3>2 DEF HarnessType, Hooked
<1>2. CASE KeepOrphan(f)
  <2>1. next' \in Manifests
    BY <1>0, <1>2 DEF KeepOrphan, HarnessType, Manifests
  <2>. QED
    <3>1. next'.text \in {next.text, [next.text EXCEPT ![f] = next'.text[f]]}
      BY <1>0, <1>2 DEF KeepOrphan, HarnessType, Manifests
    <3>2. \A e \in Event : next'.text[e] = next.text[e]
      BY <1>a, <3>1
    <3>. QED
      BY <1>0, <1>2, <2>1, <3>2 DEF KeepOrphan, HarnessType, Hooked, places, past
<1>3. CASE RemoveFile(f)
  <2>1. next' \in Manifests
    BY <1>0, <1>3 DEF RemoveFile, HarnessType, Manifests
  <2>2. disk' \in [OurFiles -> Seq(Texts)]
    BY <1>3 DEF RemoveFile, HarnessType
  <2>3. ours' \in SUBSET Items
    BY <1>3 DEF RemoveFile, HarnessType
  <2>4. conflict' \in BOOLEAN
    BY <1>3 DEF RemoveFile
  <2>. QED
    <3>1. next'.text \in {next.text, [next.text EXCEPT ![f] = next'.text[f]]}
      BY <1>0, <1>3 DEF RemoveFile, HarnessType, Manifests
    <3>2. \A e \in Event : next'.text[e] = next.text[e]
      BY <1>a, <3>1
    <3>. QED
      BY <1>0, <1>3, <2>1, <2>2, <2>3, <2>4, <3>2 DEF RemoveFile, HarnessType, Hooked
<1>. QED
  BY <1>1, <1>2, <1>3


(* What a save makes of the hooks and of what goes on record.              *)
Saved(hook, managed, keysOurs) ==
  /\ IF Hooked
     THEN \A e \in Event :
            /\ Settled(copy.groups[e], prev.text[e], ShippedText(e), hook[e])
            /\ groups'[e] = hook[e].there \/ (groups' = groups /\ hook[e].there = copy.groups[e])
            /\ next'.text[e] = hook[e].said
            /\ conflict' = FALSE => hook[e].clash = FALSE
     ELSE groups' = groups /\ \A e \in Event : next'.text[e] = next.text[e]
  /\ \A f \in OurFiles : next'.text[f] = next.text[f]
  /\ next'.keys = managed /\ next'.written = next.written /\ next'.plugin = next.plugin
  /\ conflict' = FALSE => conflict = FALSE
  /\ \A i \in ours' : i \in (ours \ Key) \cup keysOurs
                      \/ (Hooked /\ i \in Event /\ hook[i].there # copy.groups[i])

LEMMA SaveFacts ==
  ASSUME HarnessAssumption, HarnessType, NEW newKeys, NEW managed \in SUBSET Key,
         NEW keysOurs \in SUBSET Key, NEW always,
         Save(newKeys, managed, keysOurs, always)
  PROVE  /\ \E hook : Saved(hook, managed, keysOurs)
         /\ groups' \in [Event -> Seq(Texts)] /\ next' \in Manifests /\ ours' \in SUBSET Items
         /\ conflict' \in BOOLEAN /\ keys' = newKeys
<1>1. PICK hook : hook = [e \in Event |-> WireHook(copy.groups[e], prev.text[e], ShippedText(e))]
  OBVIOUS
<1>2. PICK changed : changed = {e \in Event : Hooked /\ hook[e].there # copy.groups[e]}
  OBVIOUS
<1>3. /\ keys' = newKeys
      /\ groups' = IF Hooked /\ (always \/ changed # {})
                   THEN [e \in Event |-> hook[e].there] ELSE groups
      /\ next' = [next EXCEPT
           !.keys = managed,
           !.text = [i \in Tracked |-> IF i \in Event /\ Hooked THEN hook[i].said ELSE next.text[i]]]
      /\ conflict' = (conflict \/ (Hooked /\ \E e \in Event : hook[e].clash))
      /\ ours' = (ours \ Key) \cup keysOurs \cup changed
  BY <1>1, <1>2 DEF Save
<1>4. ASSUME Hooked, NEW e \in Event
      PROVE  /\ Settled(copy.groups[e], prev.text[e], ShippedText(e), hook[e])
             /\ hook[e].there \in Seq(Texts) /\ hook[e].said \in Shipped \cup {None}
  <2>1. e \in Tracked
    BY DEF Tracked
  <2>2. ShippedText(e) # None /\ ShippedText(e) \in Shipped /\ Shipped \subseteq Texts
    BY <2>1, <1>4, ShippedFacts DEF HarnessType, Shipped
  <2>3. hook[e] = WireHook(copy.groups[e], prev.text[e], ShippedText(e))
    BY <1>1
  <2>4. Settled(copy.groups[e], prev.text[e], ShippedText(e), hook[e])
    BY <1>4, <2>2, <2>3, WireOutcome DEF HarnessType
  <2>5. copy.groups[e] \in Seq(Texts) /\ prev.text[e] \in Shipped \cup {None}
        /\ <<ShippedText(e)>> \in Seq(Texts)
    BY <2>1, <2>2 DEF HarnessType, Manifests, Settings
  <2>. QED
    BY <2>2, <2>4, <2>5 DEF Settled
<1>5. groups' \in [Event -> Seq(Texts)]
  BY <1>3, <1>4 DEF HarnessType
<1>6. ASSUME NEW i \in Tracked
      PROVE  (IF i \in Event /\ Hooked THEN hook[i].said ELSE next.text[i]) \in Shipped \cup {None}
  BY <1>4 DEF HarnessType, Manifests
<1>7. next' \in Manifests
  BY <1>3, <1>6 DEF HarnessType, Manifests
<1>8. ours' \in SUBSET Items
  BY <1>2, <1>3 DEF HarnessType, Items, Tracked
<1>9. /\ next'.keys = managed /\ next'.written = next.written /\ next'.plugin = next.plugin
      /\ \A i \in Tracked : next'.text[i] = IF i \in Event /\ Hooked THEN hook[i].said ELSE next.text[i]
  BY <1>3 DEF HarnessType, Manifests
<1>10. \A f \in OurFiles : f \in Tracked /\ f \notin Event
  BY HarnessAssumption DEF Tracked
<1>11. \A e \in Event : e \in Tracked
  BY DEF Tracked
<1>12. conflict' = FALSE => /\ conflict = FALSE
                            /\ Hooked => \A e \in Event : hook[e].clash = FALSE
  <2>1. ASSUME Hooked, NEW e \in Event PROVE hook[e].clash \in BOOLEAN
    BY <1>4, <2>1 DEF Settled
  <2>. QED
    BY <1>3, <2>1 DEF HarnessType
<1>13. Hooked => \A e \in Event : groups'[e] = hook[e].there \/ (groups' = groups /\ hook[e].there = copy.groups[e])
  BY <1>2, <1>3
<1>14. ~Hooked => groups' = groups
  BY <1>3
<1>15. Saved(hook, managed, keysOurs)
  <2>1. \A i \in ours' : i \in (ours \ Key) \cup keysOurs
                      \/ (Hooked /\ i \in Event /\ hook[i].there # copy.groups[i])
    BY <1>2, <1>3
  <2>. QED
    BY <1>4, <1>9, <1>10, <1>11, <1>12, <1>13, <1>14, <2>1 DEF Saved
<1>. QED
  BY <1>3, <1>5, <1>7, <1>8, <1>15

(* What a save on the way out leaves of the groups, and on record.         *)
Removed(gone) ==
  /\ \A e \in Event, t \in Texts :
       t # prev.text[e] /\ Has(copy.groups[e], t) /\ Has(groups[e], t) => Has(groups'[e], t)
  /\ \A e \in Event :
       /\ e \in ours' => groups'[e] \in {groups[e], copy.groups[e]}
       /\ e \in ours' /\ prev.text[e] # None /\ copy.groups[e] # <<>> => next'.text[e] = prev.text[e]
       /\ prev.text[e] = None => next'.text[e] = next.text[e]
  /\ \A k \in Key \ gone : keys'[k] \in {keys[k], copy.keys[k]}
  /\ harness = "hermes" => keys' = keys
  /\ ours' \subseteq ours \ gone
  /\ next'.keys = next.keys /\ next'.written = next.written /\ next'.plugin = next.plugin
  /\ \A f \in OurFiles : next'.text[f] = next.text[f]

LEMMA SaveWithoutFacts ==
  ASSUME HarnessAssumption, HarnessType, NEW gone \in SUBSET Key, SaveWithout(gone)
  PROVE  /\ Removed(gone)
         /\ groups' \in [Event -> Seq(Texts)] /\ next' \in Manifests /\ ours' \in SUBSET Items
         /\ keys' \in [Key -> Values] /\ conflict' \in BOOLEAN
         /\ ~Hooked => \A e \in Event : next'.text[e] = None
<1>1. PICK hook : hook = [e \in Event |-> UnwireHook(copy.groups[e], prev.text[e])]
  OBVIOUS
<1>2. PICK rec : rec = {e \in Event : prev.text[e] # None}
  OBVIOUS
<1>3. PICK changed : changed = {e \in rec : hook[e].there # copy.groups[e]}
  OBVIOUS
<1>4. \E saved \in BOOLEAN :
         /\ groups' = [e \in Event |-> IF ~saved THEN groups[e]
                                    ELSE IF e \in changed THEN hook[e].there ELSE copy.groups[e]]
         /\ keys' = [k \in Key |-> IF ~saved \/ harness = "hermes" THEN keys[k]
                                    ELSE IF k \in gone THEN None ELSE copy.keys[k]]
  BY <1>1, <1>2, <1>3 DEF SaveWithout
<1>5. /\ next' = [next EXCEPT !.text =
           [i \in Tracked |-> IF i \in rec THEN hook[i].said ELSE next.text[i]]]
      /\ ours' = ours \ (gone \cup changed)
      /\ conflict' \in BOOLEAN
  BY <1>1, <1>2, <1>3 DEF SaveWithout
<1>6. \A e \in Event : e \in Tracked
  BY DEF Tracked
<1>7. \A f \in OurFiles : f \in Tracked /\ f \notin Event
  BY HarnessAssumption DEF Tracked
<1>8. ASSUME NEW e \in rec
      PROVE  /\ Hooked /\ e \in Event
             /\ hook[e].there \in Seq(Texts) /\ hook[e].said \in Shipped \cup {None}
             /\ hook[e].there = copy.groups[e] /\ copy.groups[e] # <<>> => hook[e].said = prev.text[e]
             /\ \A t \in Texts : t # prev.text[e] /\ Has(copy.groups[e], t) => Has(hook[e].there, t)
  <2>1. Hooked /\ e \in Event
    BY <1>2 DEF HarnessType
  <2>2. copy.groups[e] \in Seq(Texts) /\ prev.text[e] \in Shipped \cup {None}
    BY <2>1, <1>6 DEF HarnessType, Settings, Manifests
  <2>3. PICK o : o = UnwireHook(copy.groups[e], prev.text[e])
    OBVIOUS
  <2>4. o.there \in Seq(Texts) /\ Unwired(copy.groups[e], prev.text[e], o)
    BY <2>1, <2>2, <2>3, UnwireOutcome DEF HarnessType
  <2>5. \A t \in Texts : t # prev.text[e] /\ Has(copy.groups[e], t) => Has(o.there, t)
    BY <2>4 DEF Has, Unwired
  <2>6. hook[e] = o
    BY <1>1, <2>1, <2>3
  <2>. QED
    BY <2>1, <2>2, <2>4, <2>5, <2>6 DEF Unwired
<1>9. groups' \in [Event -> Seq(Texts)]
  <2>1. \A e \in Event : groups[e] \in Seq(Texts) /\ copy.groups[e] \in Seq(Texts)
    BY DEF HarnessType, Settings
  <2>. QED
    BY <1>3, <1>4, <1>8, <2>1
<1>10. keys' \in [Key -> Values]
  <2>1. \A k \in Key : keys[k] \in Values /\ copy.keys[k] \in Values /\ None \in Values
    BY DEF HarnessType, Settings, Values
  <2>. QED
    BY <1>4, <2>1
<1>11. \A i \in Tracked : (IF i \in rec THEN hook[i].said ELSE next.text[i]) \in Shipped \cup {None}
  BY <1>8 DEF HarnessType, Manifests
<1>12. next' \in Manifests
  BY <1>5, <1>11 DEF HarnessType, Manifests
<1>13. /\ next'.keys = next.keys /\ next'.written = next.written /\ next'.plugin = next.plugin
       /\ \A i \in Tracked : next'.text[i] = IF i \in rec THEN hook[i].said ELSE next.text[i]
  BY <1>5 DEF HarnessType, Manifests
<1>14. ASSUME ~Hooked, NEW e \in Event PROVE next'.text[e] = None
  <2>1. e \notin rec
    BY <1>8, <1>14
  <2>. QED
    BY <1>6, <1>13, <1>14, <2>1 DEF HarnessType
<1>15. ASSUME NEW e \in Event, NEW t \in Texts, t # prev.text[e], Has(copy.groups[e], t), Has(groups[e], t)
       PROVE  Has(groups'[e], t)
  <2>1. groups'[e] \in {groups[e], copy.groups[e]} \/ (e \in rec /\ groups'[e] = hook[e].there)
    BY <1>3, <1>4
  <2>2. e \in rec => Has(hook[e].there, t)
    BY <1>8, <1>15
  <2>. QED
    BY <1>15, <2>1, <2>2
<1>16. ASSUME NEW e \in Event, e \in ours', prev.text[e] # None, copy.groups[e] # <<>>
       PROVE  next'.text[e] = prev.text[e]
  <2>1. e \in rec /\ e \notin changed
    BY <1>2, <1>5, <1>16
  <2>. QED
    BY <1>3, <1>6, <1>8, <1>13, <1>16, <2>1
<1>16a. \A e \in Event : e \in ours' => groups'[e] \in {groups[e], copy.groups[e]}
  BY <1>4, <1>5
<1>17. /\ \A k \in Key \ gone : keys'[k] \in {keys[k], copy.keys[k]}
       /\ harness = "hermes" => keys' = keys
  BY <1>4 DEF HarnessType
<1>18. ours' \subseteq ours \ gone /\ ours' \in SUBSET Items
  BY <1>5 DEF HarnessType
<1>19. \A f \in OurFiles : next'.text[f] = next.text[f]
  BY <1>2, <1>7, <1>13
<1>19a. \A e \in Event : prev.text[e] = None => next'.text[e] = next.text[e]
  BY <1>2, <1>6, <1>13
<1>20. Removed(gone)
  BY <1>19a, <1>13, <1>15, <1>16, <1>16a, <1>17, <1>18, <1>19 DEF Removed
<1>. QED
  BY <1>5, <1>9, <1>10, <1>12, <1>14, <1>18, <1>20

LEMMA UserKeepsType ==
  ASSUME HarnessAssumption, HarnessType, User
  PROVE  HarnessType'
<1>1. ASSUME NEW i, UserEdits(i)
      PROVE  /\ UNCHANGED <<harness, edition, block, manifest, step, held, crashed>>
             /\ ours' \in SUBSET Items
  BY <1>1 DEF UserEdits, HarnessType
<1>2. ASSUME NEW i \in Items, NEW t \in Texts \cup Values
      PROVE  /\ Left(i, t) \in [Items -> Texts \cup Values]
             /\ [theirs EXCEPT ![i] = None] \in [Items -> Texts \cup Values]
             /\ [theirs EXCEPT ![i] = t] \in [Items -> Texts \cup Values]
  BY DEF Left, HarnessType, Values
<1>3. ASSUME NEW f \in OurFiles, UserFile(f) PROVE HarnessType'
  <2>1. f \in Items
    BY DEF Items, Tracked
  <2>2. \A t \in Texts : <<t>> \in Seq(Texts)
    OBVIOUS
  <2>3. disk' \in [OurFiles -> Seq(Texts)]
    <3>1. PICK x \in Seq(Texts) : disk' = [disk EXCEPT ![f] = x]
      <4>1. CASE disk' = [disk EXCEPT ![f] = <<>>]
        <5>1. <<>> \in Seq(Texts)
          OBVIOUS
        <5>. QED
          BY <4>1, <5>1
      <4>2. CASE \E t \in Texts : disk' = [disk EXCEPT ![f] = <<t>>]
        <5>1. PICK t \in Texts : disk' = [disk EXCEPT ![f] = <<t>>]
          BY <4>2
        <5>. QED
          BY <5>1, <2>2
      <4>. QED
        BY <1>3, <4>1, <4>2 DEF UserFile
    <3>. QED
      BY <3>1 DEF HarnessType
  <2>4. theirs' \in [Items -> Texts \cup Values]
    BY <1>2, <1>3, <2>1 DEF UserFile, Left, Values
  <2>. QED
    BY <1>1, <1>3, <2>3, <2>4 DEF UserFile, HarnessType, held, Hooked
<1>4. ASSUME NEW e \in Event, UserGroup(e) PROVE HarnessType'
  <2>1. e \in Items
    BY DEF Items, Tracked
  <2>2. \A t \in Texts : <<t>> \in Seq(Texts) /\ Append(groups[e], t) \in Seq(Texts)
    BY DEF HarnessType
  <2>3. groups' \in [Event -> Seq(Texts)]
    <3>1. PICK x \in Seq(Texts) : groups' = [groups EXCEPT ![e] = x]
      <4>1. CASE groups' = [groups EXCEPT ![e] = <<>>]
        <5>1. <<>> \in Seq(Texts)
          OBVIOUS
        <5>. QED
          BY <4>1, <5>1
      <4>2. CASE \E t \in Texts : \/ groups' = [groups EXCEPT ![e] = <<t>>]
                                  \/ groups' = [groups EXCEPT ![e] = Append(@, t)]
        <5>1. PICK t \in Texts : \/ groups' = [groups EXCEPT ![e] = <<t>>]
                                \/ groups' = [groups EXCEPT ![e] = Append(groups[e], t)]
          BY <4>2
        <5>. QED
          BY <5>1, <2>2
      <4>. QED
        BY <1>4, <4>1, <4>2 DEF UserGroup
    <3>. QED
      BY <3>1 DEF HarnessType
  <2>4. theirs' \in [Items -> Texts \cup Values]
    BY <1>2, <1>4, <2>1 DEF UserGroup, Left, Values
  <2>. QED
    BY <1>1, <1>4, <2>3, <2>4 DEF UserGroup, HarnessType, held, Hooked
<1>5. ASSUME NEW k \in Key, UserKey(k) PROVE HarnessType'
  <2>1. k \in Items
    BY DEF Items
  <2>2. keys' \in [Key -> Values]
    BY <1>5 DEF UserKey, HarnessType, Values
  <2>3. theirs' \in [Items -> Texts \cup Values]
    BY <1>2, <1>5, <2>1 DEF UserKey, Values
  <2>. QED
    BY <1>1, <1>5, <2>2, <2>3 DEF UserKey, HarnessType, held, Hooked
<1>6. CASE UserPlugin
  <2>1. plugin' \in [files : Nat, entry : BOOLEAN]
    BY <1>6 DEF UserPlugin, HarnessType
  <2>. QED
    BY <1>1, <1>6, <2>1 DEF UserPlugin, HarnessType, held, Hooked
<1>. QED
  BY <1>3, <1>4, <1>5, <1>6 DEF User

LEMMA InstallKeepsType ==
  ASSUME HarnessAssumption, HarnessType, Install
  PROVE  HarnessType'
<1>0. \A e \in Event : e \in Tracked
  BY DEF Tracked
<1>1. CASE InstallStart
  <2>1. next' \in Manifests /\ \A e \in Event : next'.text[e] = None
    BY <1>0, <1>1, BlankFacts DEF InstallStart, Manifests
  <2>2. todo' \in SUBSET OurFiles /\ env' \in [Key -> Values]
    BY <1>1, HarnessAssumption DEF InstallStart, Values
  <2>. QED
    BY <1>1, <2>1, <2>2 DEF InstallStart, HarnessType, Hooked, places
<1>2. CASE WireBlock
  <2>1. PICK new \in SUBSET Wanted, kept \in [Key -> Values], outside \in [Key -> Values] :
          /\ block' = [k \in Key |-> IF k \in new THEN env[k] ELSE kept[k]]
          /\ keys' = IF new = {} THEN keys ELSE outside
          /\ ours' = (ours \cup new) \ (Key \ Present(block'))
    <3>1. RetireEnvHermes \in [Key -> Values]
      BY DEF RetireEnvHermes, HarnessType, Values
    <3>2. [k \in Key |-> IF RetireEnvHermes[k] # None THEN None ELSE keys[k]] \in [Key -> Values]
      BY DEF HarnessType, Values
    <3>. QED
      BY <1>2, <3>1, <3>2 DEF WireBlock
  <2>2. Wanted \subseteq Key /\ Key \subseteq Items
    BY DEF Wanted, Present, Items
  <2>3. block' \in [Key -> Values] /\ keys' \in [Key -> Values]
    BY <2>1, <2>2 DEF HarnessType
  <2>4. ours' \in SUBSET Items
    BY <2>1, <2>2 DEF HarnessType
  <2>5. PICK managed : next' = [next EXCEPT !.keys = managed]
    BY <1>2 DEF WireBlock
  <2>6. next'.keys \subseteq Key
    BY <1>2, <2>2 DEF WireBlock, Present, HarnessType, Manifests
  <2>7. next' \in Manifests /\ next'.text = next.text
    BY <2>5, <2>6 DEF HarnessType, Manifests
  <2>. QED
    BY <1>2, <2>3, <2>4, <2>7 DEF WireBlock, HarnessType, Hooked
<1>3. CASE LoadSettings
  <2>1. copy' \in Settings
    BY <1>3 DEF LoadSettings, HarnessType, Settings
  <2>. QED
    BY <1>3, <2>1 DEF LoadSettings, HarnessType, Hooked, places, past
<1>4. ASSUME NEW newKeys \in [Key -> Values], NEW managed \in SUBSET Key,
             NEW keysOurs \in SUBSET Key, NEW always,
             Save(newKeys, managed, keysOurs, always)
      PROVE  HarnessType'
  <2>1. PICK hook : Saved(hook, managed, keysOurs)
    BY <1>4, SaveFacts
  <2>2. /\ groups' \in [Event -> Seq(Texts)] /\ next' \in Manifests /\ ours' \in SUBSET Items
        /\ conflict' \in BOOLEAN /\ keys' = newKeys
    BY <1>4, SaveFacts
  <2>3. ~Hooked => \A e \in Event : next'.text[e] = next.text[e]
    BY <2>1 DEF Saved
  <2>4. UNCHANGED <<harness, edition, disk, block, plugin, manifest, prev, copy, todo, env,
                    theirs, quiet, crashed, raced, edits>>
    BY <1>4 DEF Save
  <2>. QED
    BY <1>4, <2>2, <2>3, <2>4 DEF HarnessType, Hooked
<1>5. CASE SaveClaude \/ SaveOpencode
  <2>1. PICK loaded : loaded = RetireEnvClaude(copy.keys)
    OBVIOUS
  <2>2. PICK new : new = WireEnvClaude(loaded)
    OBVIOUS
  <2>3. loaded \in [Key -> Values]
    BY <2>1 DEF RetireEnvClaude, HarnessType, Settings, Values
  <2>4. new \in [Key -> Values]
    BY <2>2, <2>3 DEF WireEnvClaude, HarnessType
  <2>5. Managed(loaded) \in SUBSET Key /\ Owned(loaded, new) \in SUBSET Key
    BY DEF Managed, Owned
  <2>6. Save(new, Managed(loaded), Owned(loaded, new), TRUE)
    BY <1>5, <2>1, <2>2 DEF SaveClaude, SaveOpencode, RetireConfigOpencode, WireEnvOpencode
  <2>. QED
    BY <1>4, <2>4, <2>5, <2>6
<1>6. CASE SaveHooks
  <2>1. Save(keys, next.keys, ours \cap Key, FALSE)
    BY <1>6 DEF SaveHooks
  <2>2. keys \in [Key -> Values] /\ next.keys \in SUBSET Key /\ ours \cap Key \in SUBSET Key
    BY DEF HarnessType, Manifests
  <2>. QED
    BY <1>4, <2>1, <2>2
<1>7. CASE InstallPlugin
  <2>1. edition \in Nat
    BY HarnessAssumption DEF HarnessType
  <2>2. plugin' \in [files : Nat, entry : BOOLEAN]
    BY <1>7, <2>1 DEF InstallPlugin, HarnessType
  <2>3. next' \in Manifests /\ next'.text = next.text
    BY <1>7 DEF InstallPlugin, HarnessType, Manifests
  <2>. QED
    BY <1>7, <2>2, <2>3 DEF InstallPlugin, HarnessType, Hooked, past
<1>8. CASE WirePlugin
  <2>2. plugin' \in [files : Nat, entry : BOOLEAN]
    BY <1>8 DEF WirePlugin, HarnessType
  <2>3. next' \in Manifests /\ next'.text = next.text
    BY <1>8 DEF WirePlugin, HarnessType, Manifests
  <2>. QED
    BY <1>8, <2>2, <2>3 DEF WirePlugin, HarnessType, Hooked, past
<1>9. CASE WriteManifest
  BY <1>0, <1>9, BlankFacts DEF WriteManifest, Fresh, HarnessType, Hooked, places, past
<1>10. ASSUME NEW f \in OurFiles, InstallSkill(f) \/ InstallAgent(f) \/ KeepOrphan(f)
       PROVE  HarnessType'
  BY <1>10, FileKeepsType DEF InstallSkill, InstallAgent
<1>. QED
  BY <1>1, <1>2, <1>3, <1>5, <1>6, <1>7, <1>8, <1>9, <1>10 DEF Install

LEMMA UninstallKeepsType ==
  ASSUME HarnessAssumption, HarnessType, Uninstall
  PROVE  HarnessType'
<1>0. \A e \in Event : e \in Tracked
  BY DEF Tracked
<1>1. CASE UninstallStart
  <2>1. prev' \in Manifests /\ prev'.text = manifest.text
    BY <1>1 DEF UninstallStart, HarnessType, Manifests
  <2>2. todo' \in SUBSET OurFiles
    BY <1>1 DEF UninstallStart
  <2>. QED
    BY <1>0, <1>1, <2>1, <2>2, BlankFacts DEF UninstallStart, HarnessType, Hooked, places
<1>2. CASE UninstallLoad
  <2>1. copy' \in Settings
    BY <1>2 DEF UninstallLoad, HarnessType, Settings
  <2>. QED
    BY <1>2, <2>1 DEF UninstallLoad, HarnessType, Hooked, places, past
<1>3. ASSUME NEW gone \in SUBSET Key, SaveWithout(gone)
      PROVE  HarnessType'
  <2>1. /\ groups' \in [Event -> Seq(Texts)] /\ next' \in Manifests /\ ours' \in SUBSET Items
        /\ keys' \in [Key -> Values] /\ conflict' \in BOOLEAN
        /\ ~Hooked => \A e \in Event : next'.text[e] = None
    BY <1>3, SaveWithoutFacts
  <2>2. UNCHANGED <<harness, edition, disk, block, plugin, manifest, prev, copy, todo, env,
                    theirs, quiet, crashed, raced, edits>>
    BY <1>3 DEF SaveWithout
  <2>. QED
    <3>1. Hooked' <=> Hooked
      BY <2>2 DEF Hooked
    <3>. QED
      BY <2>1, <2>2, <3>1 DEF HarnessType
<1>4. CASE UnwireClaude \/ UnwireOpencode \/ UnwireHooks
  <2>1. prev.keys \in SUBSET Key
    BY DEF HarnessType, Manifests
  <2>. QED
    BY <1>3, <1>4, <2>1 DEF UnwireClaude, UnwireOpencode, UnwireHooks
<1>5. CASE RemoveBlock
  BY <1>5, BlankFacts DEF RemoveBlock, HarnessType, Hooked, held
<1>6. CASE UnregisterPlugin \/ RemovePlugin
  <2>2. plugin' \in [files : Nat, entry : BOOLEAN]
    <3>2. CASE UnregisterPlugin
      <4>1. (plugin.entry /\ ~prev.plugin) \in BOOLEAN
        OBVIOUS
      <4>2. plugin' = [plugin EXCEPT !.entry = (plugin.entry /\ ~prev.plugin)]
        BY <3>2 DEF UnregisterPlugin
      <4>. QED
        BY <4>1, <4>2 DEF HarnessType
    <3>3. CASE RemovePlugin
      BY <3>3 DEF HarnessType, RemovePlugin
    <3>. QED
      BY <1>6, <3>2, <3>3
  <2>. QED
    BY <1>6, <2>2 DEF UnregisterPlugin, RemovePlugin, HarnessType, Hooked, held, past
<1>7. CASE UninstallManifest
  <2>1. manifest' \in Manifests /\ manifest'.text = next.text
    BY <1>7 DEF UninstallManifest, HarnessType, Manifests
  <2>. QED
    BY <1>0, <1>7, <2>1, BlankFacts DEF UninstallManifest, Fresh, HarnessType, Hooked, places, past
<1>8. ASSUME NEW f \in OurFiles, RemoveFile(f)
       PROVE  HarnessType'
  BY <1>8, FileKeepsType
<1>. QED
  BY <1>1, <1>2, <1>4, <1>5, <1>6, <1>7, <1>8 DEF Uninstall

LEMMA HarnessTypeStep ==
  ASSUME HarnessAssumption, HarnessType, [HarnessNext]_harnessVars
  PROVE  HarnessType'
<1>0. \A e \in Event : e \in Tracked
  BY DEF Tracked
<1>1. CASE Upgrade
  BY <1>1, HarnessAssumption DEF Upgrade, HarnessType, Hooked, places, held, past
<1>2. CASE BreaksOff
  BY <1>0, <1>2, BlankFacts DEF BreaksOff, Fresh, HarnessType, Hooked, places
<1>3. CASE UNCHANGED harnessVars
  BY <1>3 DEF harnessVars, HarnessType, Hooked, places, held, past
<1>. QED
  BY <1>1, <1>2, <1>3, InstallKeepsType, UninstallKeepsType, UserKeepsType DEF HarnessNext
-----------------------------------------------------------------------------
(* The order of a run, and what it holds while it is there.                *)
Installing == {"files", "block", "save", "plugin", "register", "manifest"}
Removing   == {"u_load", "u_save", "u_block", "u_plugin", "u_package", "u_files"}

Order ==
  /\ step \in {"idle"} \cup Installing \cup Removing
  /\ step \in {"plugin", "register", "u_plugin", "u_package"} => harness = "opencode"
  /\ step \in {"block", "u_block"} => harness = "hermes"
  /\ step = "idle" => prev = Blank /\ next = Blank
  /\ step # "idle" => prev.text = manifest.text /\ prev.keys = manifest.keys
  /\ step \in Installing \ {"files"} => todo = {}
  /\ step \in {"save", "u_save"} /\ (quiet \/ ~raced) =>
       copy.groups = groups /\ (harness # "hermes" => copy.keys = keys)

(* What the user keeps stands, and what is on record under its name is     *)
(* something else.                                                         *)
KeptFile(f)  == theirs[f] # None => disk[f] = <<theirs[f]>>
KeptGroup(e) == theirs[e] # None => Has(groups[e], theirs[e])
KeptText(i)  == theirs[i] \notin UserText \cup {None} =>
                  manifest.text[i] = None /\ next.text[i] = None
KeptKey(k)   == theirs[k] # None =>
                  /\ keys[k] = theirs[k] /\ block[k] = None
                  /\ k \notin manifest.keys \cup next.keys \cup prev.keys

TheirsKept ==
  ~raced => /\ \A f \in OurFiles : KeptFile(f)
            /\ \A e \in Event : KeptGroup(e)
            /\ \A i \in Tracked : KeptText(i)
            /\ \A k \in Key : KeptKey(k)

(* What the tool put where it is, is on record or will be dealt with.      *)
FileFound(f) ==
  /\ disk[f] # <<>>
  /\ IF step = "idle" THEN manifest.text[f] # None
     ELSE IF f \in todo THEN prev.text[f] # None ELSE next.text[f] # None

GroupFound(e) ==
  /\ groups[e] # <<>> /\ Hooked
  /\ CASE step = "idle" -> manifest.text[e] # None
       [] step \in {"files", "block", "save", "u_load", "u_save"} -> prev.text[e] # None
       [] OTHER -> next.text[e] # None

KeyFound(k) ==
  /\ harness \in {"claude", "opencode", "hermes"}
  /\ step = "idle" => k \in manifest.keys
  /\ harness = "hermes" => /\ block[k] # None
                           /\ step \in {"block", "save", "manifest"} => k \in next.keys
                           /\ step # "u_files"
  /\ harness # "hermes" => /\ step \in {"files", "save", "u_load", "u_save"} => k \in prev.keys
                           /\ step \in {"plugin", "register", "manifest"} => k \in next.keys
                           /\ step \notin {"u_plugin", "u_package", "u_files"}

PluginFound ==
  plugin.files # 0 =>
    /\ harness = "opencode"
    /\ step = "idle" => manifest.plugin /\ manifest.written
    /\ step \in {"files", "save", "plugin", "u_load", "u_save", "u_plugin"} => prev.plugin
    /\ step = "register" => prev.plugin \/ next.plugin
    /\ step = "manifest" => next.plugin
    /\ step # "u_files"

Found ==
  ~crashed /\ ~raced =>
    /\ \A f \in OurFiles \cap ours : FileFound(f)
    /\ \A e \in Event \cap ours : GroupFound(e)
    /\ \A k \in Key \cap ours : KeyFound(k)
    /\ PluginFound
    /\ step \in Installing => next.written

(* What an undisturbed run without a conflict has put in place so far.     *)
FileIn(f)  == disk[f] = <<ShippedText(f)>> /\ next.text[f] = ShippedText(f)
GroupIn(e) == groups[e] = <<ShippedText(e)>> /\ next.text[e] = ShippedText(e)

SoFar ==
  quiet /\ ~conflict =>
    /\ step \in Installing => \A f \in OurFiles : ShippedText(f) # None => f \in todo \/ FileIn(f)
    /\ step \in {"plugin", "register", "manifest"} /\ Hooked => \A e \in Event : GroupIn(e)
    /\ harness = "hermes" /\ step \in {"block", "save", "manifest"} =>
         \A k \in Wanted : keys[k] # None \/ block[k] # None
    /\ harness \in {"claude", "opencode"} /\ step \in {"plugin", "register", "manifest"} =>
         \A k \in Wanted : keys[k] # None
    /\ step = "register" => plugin.files = edition
    /\ step = "manifest" /\ harness = "opencode" => plugin = [files |-> edition, entry |-> TRUE]

LEMMA OrderInit ==
  ASSUME HarnessInit PROVE Order
BY DEF HarnessInit, Order, Installing, Removing, Blank

LEMMA OrderStep ==
  ASSUME HarnessAssumption, HarnessType, Order, [HarnessNext]_harnessVars
  PROVE  Order'
<1>. USE DEF Order, Installing, Removing, Go
<1>1. CASE UNCHANGED harnessVars
  BY <1>1 DEF harnessVars, places, held, past
<1>2. CASE Upgrade
  BY <1>2 DEF Upgrade, Running, places, held, past
<1>3. CASE BreaksOff
  BY <1>3 DEF BreaksOff, Fresh, places
<1>4. CASE User
  <2>1. ASSUME NEW i, UserEdits(i)
        PROVE  /\ UNCHANGED <<harness, edition, block, manifest, step, held, crashed>>
               /\ step # "idle" => ~quiet'
    BY <2>1 DEF UserEdits, Running
  <2>2. ASSUME NEW f \in OurFiles, UserFile(f) PROVE Order'
    BY <2>1, <2>2 DEF UserFile, held
  <2>3. ASSUME NEW e \in Event, UserGroup(e) PROVE Order'
    <3>1. HoldsSettings => raced'
      BY <2>3 DEF UserGroup
    <3>. QED
      BY <2>1, <2>3, <3>1 DEF UserGroup, HoldsSettings, held
  <2>4. ASSUME NEW k \in Key, UserKey(k) PROVE Order'
    <3>1. HoldsSettings /\ harness # "hermes" => raced'
      BY <2>4 DEF UserKey
    <3>2. (raced' <=> raced) \/ (HoldsSettings /\ harness # "hermes")
      BY <2>4 DEF UserKey
    <3>. QED
      BY <2>1, <2>4, <3>1, <3>2 DEF UserKey, HoldsSettings, held
  <2>5. CASE UserPlugin
    BY <2>1, <2>5 DEF UserPlugin, held
  <2>. QED
    BY <1>4, <2>2, <2>3, <2>4, <2>5 DEF User
<1>5. CASE InstallStart
  BY <1>5 DEF InstallStart, places
<1>6. CASE WireBlock
  BY <1>6 DEF WireBlock
<1>7. CASE LoadSettings
  BY <1>7 DEF LoadSettings, HarnessType, HarnessAssumption, places, past
<1>8. ASSUME NEW newKeys, NEW managed, NEW keysOurs, NEW always, Save(newKeys, managed, keysOurs, always)
      PROVE  UNCHANGED <<harness, edition, disk, block, plugin, manifest, prev, copy, todo, env,
                    theirs, quiet, crashed, raced, edits>>
  BY <1>8 DEF Save
<1>9. CASE SaveClaude \/ SaveOpencode \/ SaveHooks
  BY <1>8, <1>9 DEF SaveClaude, SaveOpencode, SaveHooks, HarnessType, HarnessAssumption
<1>10. CASE InstallPlugin \/ WirePlugin
  BY <1>10 DEF InstallPlugin, WirePlugin, HarnessAssumption, HarnessType, past
<1>11. CASE WriteManifest
  BY <1>11 DEF WriteManifest, Fresh, places, past
<1>12. ASSUME NEW f \in OurFiles, InstallSkill(f) \/ InstallAgent(f) \/ KeepOrphan(f) PROVE Order'
  BY <1>12 DEF InstallSkill, InstallAgent, Place, KeepOrphan, Turn, places, past
<1>13. CASE UninstallStart
  <2>1. prev'.text = manifest.text /\ prev'.keys = manifest.keys
    BY <1>13 DEF UninstallStart, HarnessType, Manifests
  <2>. QED
    BY <1>13, <2>1 DEF UninstallStart, places
<1>14. CASE UninstallLoad
  BY <1>14 DEF UninstallLoad, places, past
<1>15. ASSUME NEW gone, SaveWithout(gone)
       PROVE  UNCHANGED <<harness, edition, disk, block, plugin, manifest, prev, copy, todo, env,
                    theirs, quiet, crashed, raced, edits>>
  BY <1>15 DEF SaveWithout
<1>16. CASE UnwireClaude \/ UnwireOpencode \/ UnwireHooks
  BY <1>15, <1>16 DEF UnwireClaude, UnwireOpencode, UnwireHooks
<1>17. CASE RemoveBlock \/ UnregisterPlugin \/ RemovePlugin
  BY <1>17 DEF RemoveBlock, UnregisterPlugin, RemovePlugin, held, past
<1>18. CASE UninstallManifest
  BY <1>18 DEF UninstallManifest, Fresh, places, past
<1>19. ASSUME NEW f \in OurFiles, RemoveFile(f) PROVE Order'
  BY <1>19 DEF RemoveFile, Turn
<1>. QED
  BY <1>1, <1>2, <1>3, <1>4, <1>5, <1>6, <1>7, <1>9, <1>10, <1>11, <1>12, <1>13, <1>14, <1>16,
     <1>17, <1>18, <1>19 DEF HarnessNext, Install, Uninstall

LEMMA TextsOf ==
  ASSUME HarnessAssumption, HarnessType
  PROVE  /\ None \notin UserText
         /\ \A i \in Tracked : /\ manifest.text[i] \notin UserText
                               /\ prev.text[i] \notin UserText /\ next.text[i] \notin UserText
         /\ \A e \in Event : \A t : Has(groups[e], t) => t \in Texts /\ groups[e] # <<>>
<1>1. None \notin UserText
  BY HarnessAssumption
<1>2. \A i \in Tracked : /\ manifest.text[i] \in Shipped \cup {None}
                         /\ prev.text[i] \in Shipped \cup {None} /\ next.text[i] \in Shipped \cup {None}
  BY DEF HarnessType, Manifests
<1>3. ASSUME NEW e \in Event, NEW t, Has(groups[e], t) PROVE t \in Texts /\ groups[e] # <<>>
  <2>1. groups[e] \in Seq(Texts)
    BY DEF HarnessType
  <2>. QED
    BY <1>3, <2>1 DEF Has
<1>. QED
  BY <1>1, <1>2, <1>3 DEF Shipped

LEMMA ItemFacts ==
  ASSUME HarnessAssumption
  PROVE  /\ \A f \in OurFiles : f \in Tracked /\ f \notin Event /\ f \notin Key /\ f \in Items
         /\ \A e \in Event : e \in Tracked /\ e \notin OurFiles /\ e \notin Key /\ e \in Items
         /\ \A k \in Key : k \notin Tracked /\ k \in Items
BY HarnessAssumption DEF Tracked, Items

LEMMA TheirsInit ==
  ASSUME HarnessInit PROVE TheirsKept
BY DEF HarnessInit, TheirsKept, KeptFile, KeptGroup, KeptText, KeptKey, Items, Tracked

(* The user keeps something, or throws it away.                            *)
LEMMA UserKeepsTheirs ==
  ASSUME HarnessAssumption, HarnessType, Order, TheirsKept, User
  PROVE  TheirsKept'
<1>1. ASSUME NEW i, UserEdits(i)
      PROVE  UNCHANGED <<harness, edition, block, manifest, step, held, crashed>>
  BY <1>1 DEF UserEdits
<1>2. ASSUME NEW i \in Tracked, Unlisted(i) PROVE manifest.text[i] = None /\ next.text[i] = None
  <2>1. i \notin Key
    BY HarnessAssumption
  <2>2. step = "idle" => next.text[i] = None
    BY BlankFacts DEF Order
  <2>. QED
    BY <1>2, <2>1, <2>2 DEF Unlisted, Running
<1>3. ASSUME NEW f \in OurFiles, UserFile(f) PROVE TheirsKept'
  <2>. SUFFICES ASSUME ~raced' PROVE TheirsKept'
    BY DEF TheirsKept
  <2>1. ~raced /\ f \in Tracked /\ f \in Items
    BY <1>3, ItemFacts DEF UserFile
  <2>2. PICK x, t : /\ disk' = [disk EXCEPT ![f] = x] /\ theirs' = [theirs EXCEPT ![f] = t]
                    /\ t # None => x = <<t>> /\ (t \in UserText \/ Unlisted(f))
    <3>1. CASE \E t \in Texts : disk' = [disk EXCEPT ![f] = <<t>>] /\ theirs' = Left(f, t)
      <4>1. PICK t \in Texts : disk' = [disk EXCEPT ![f] = <<t>>] /\ theirs' = Left(f, t)
        BY <3>1
      <4>2. CASE t \in UserText \/ Unlisted(f)
        BY <4>1, <4>2 DEF Left
      <4>3. CASE ~(t \in UserText \/ Unlisted(f))
        BY <4>1, <4>3 DEF Left
      <4>. QED
        BY <4>2, <4>3
    <3>2. CASE disk' = [disk EXCEPT ![f] = <<>>] /\ theirs' = [theirs EXCEPT ![f] = None]
      BY <3>2
    <3>. QED
      BY <1>3, <3>1, <3>2 DEF UserFile
  <2>3. UNCHANGED <<manifest, prev, next, block, keys, groups>>
    BY <1>1, <1>3 DEF UserFile, held
  <2>4. \A i \in Items : theirs'[i] = IF i = f THEN t ELSE theirs[i]
    BY <2>2 DEF HarnessType
  <2>5. \A g \in OurFiles : disk'[g] = IF g = f THEN x ELSE disk[g]
    BY <2>2 DEF HarnessType
  <2>6. \A g \in OurFiles : KeptFile(g)'
    BY <2>1, <2>2, <2>4, <2>5, ItemFacts DEF TheirsKept, KeptFile
  <2>7. \A e \in Event : KeptGroup(e)'
    BY <2>1, <2>3, <2>4, ItemFacts DEF TheirsKept, KeptGroup
  <2>8. \A i \in Tracked : KeptText(i)'
    BY <1>2, <2>1, <2>2, <2>3, <2>4 DEF TheirsKept, KeptText, Items
  <2>9. \A k \in Key : KeptKey(k)'
    BY <2>1, <2>3, <2>4, ItemFacts DEF TheirsKept, KeptKey
  <2>. QED
    BY <2>6, <2>7, <2>8, <2>9 DEF TheirsKept
<1>4. ASSUME NEW e \in Event, UserGroup(e) PROVE TheirsKept'
  <2>. SUFFICES ASSUME ~raced' PROVE TheirsKept'
    BY DEF TheirsKept
  <2>1. ~raced /\ e \in Tracked /\ e \in Items
    BY <1>4, ItemFacts DEF UserGroup
  <2>2. PICK x, t : /\ groups' = [groups EXCEPT ![e] = x] /\ theirs' = [theirs EXCEPT ![e] = t]
                    /\ t # None => Has(x, t) /\ (t \in UserText \/ Unlisted(e))
    <3>1. CASE \E t \in Texts : /\ \/ groups' = [groups EXCEPT ![e] = <<t>>]
                                   \/ groups' = [groups EXCEPT ![e] = Append(@, t)]
                                /\ theirs' = Left(e, t)
      <4>1. PICK t \in Texts : /\ \/ groups' = [groups EXCEPT ![e] = <<t>>]
                                  \/ groups' = [groups EXCEPT ![e] = Append(groups[e], t)]
                               /\ theirs' = Left(e, t)
        BY <3>1
      <4>2. PICK x : groups' = [groups EXCEPT ![e] = x] /\ Has(x, t)
        <5>1. Has(<<t>>, t)
          BY DEF Has
        <5>2. Has(Append(groups[e], t), t)
          <6>1. groups[e] \in Seq(Texts)
            BY DEF HarnessType
          <6>2. Len(groups[e]) + 1 \in DOMAIN Append(groups[e], t)
                /\ Append(groups[e], t)[Len(groups[e]) + 1] = t
            BY <6>1
          <6>. QED
            BY <6>2 DEF Has
        <5>. QED
          BY <4>1, <5>1, <5>2
      <4>3. CASE t \in UserText \/ Unlisted(e)
        BY <4>1, <4>2, <4>3 DEF Left
      <4>4. CASE ~(t \in UserText \/ Unlisted(e))
        BY <4>1, <4>2, <4>4 DEF Left
      <4>. QED
        BY <4>3, <4>4
    <3>2. CASE groups' = [groups EXCEPT ![e] = <<>>] /\ theirs' = [theirs EXCEPT ![e] = None]
      BY <3>2
    <3>. QED
      BY <1>4, <3>1, <3>2 DEF UserGroup
  <2>3. UNCHANGED <<manifest, prev, next, block, keys, disk>>
    BY <1>1, <1>4 DEF UserGroup, held
  <2>4. \A i \in Items : theirs'[i] = IF i = e THEN t ELSE theirs[i]
    BY <2>2 DEF HarnessType
  <2>5. \A g \in Event : groups'[g] = IF g = e THEN x ELSE groups[g]
    BY <2>2 DEF HarnessType
  <2>6. \A g \in OurFiles : KeptFile(g)'
    BY <2>1, <2>3, <2>4, ItemFacts DEF TheirsKept, KeptFile
  <2>7. \A g \in Event : KeptGroup(g)'
    BY <2>1, <2>2, <2>4, <2>5, ItemFacts DEF TheirsKept, KeptGroup
  <2>8. \A i \in Tracked : KeptText(i)'
    BY <1>2, <2>1, <2>2, <2>3, <2>4 DEF TheirsKept, KeptText, Items
  <2>9. \A k \in Key : KeptKey(k)'
    BY <2>1, <2>3, <2>4, ItemFacts DEF TheirsKept, KeptKey
  <2>. QED
    BY <2>6, <2>7, <2>8, <2>9 DEF TheirsKept
<1>5. ASSUME NEW k \in Key, UserKey(k) PROVE TheirsKept'
  <2>. SUFFICES ASSUME ~raced' PROVE TheirsKept'
    BY DEF TheirsKept
  <2>1. ~raced /\ k \in Items
    BY <1>5, ItemFacts DEF UserKey
  <2>2. PICK v, t : /\ keys' = [keys EXCEPT ![k] = v] /\ theirs' = [theirs EXCEPT ![k] = t]
                    /\ t # None => t = v /\ Unlisted(k) /\ block[k] = None
    <3>1. PICK v : /\ keys' = [keys EXCEPT ![k] = v]
                   /\ theirs' = [theirs EXCEPT ![k] = IF Unlisted(k) /\ block[k] = None THEN v ELSE None]
      BY <1>5 DEF UserKey
    <3>2. CASE Unlisted(k) /\ block[k] = None
      BY <3>1, <3>2
    <3>3. CASE ~(Unlisted(k) /\ block[k] = None)
      BY <3>1, <3>3
    <3>. QED
      BY <3>2, <3>3
  <2>3. UNCHANGED <<manifest, prev, next, block, groups, disk>>
    BY <1>1, <1>5 DEF UserKey, held
  <2>4. \A i \in Items : theirs'[i] = IF i = k THEN t ELSE theirs[i]
    BY <2>2 DEF HarnessType
  <2>5. \A g \in Key : keys'[g] = IF g = k THEN v ELSE keys[g]
    BY <2>2 DEF HarnessType
  <2>6. \A g \in OurFiles : KeptFile(g)'
    BY <2>1, <2>3, <2>4, ItemFacts DEF TheirsKept, KeptFile
  <2>7. \A g \in Event : KeptGroup(g)'
    BY <2>1, <2>3, <2>4, ItemFacts DEF TheirsKept, KeptGroup
  <2>8. \A i \in Tracked : KeptText(i)'
    BY <2>1, <2>3, <2>4, ItemFacts DEF TheirsKept, KeptText, Items
  <2>9. \A g \in Key : KeptKey(g)'
    BY <2>1, <2>2, <2>3, <2>4, <2>5, ItemFacts DEF TheirsKept, KeptKey, Unlisted
  <2>. QED
    BY <2>6, <2>7, <2>8, <2>9 DEF TheirsKept
<1>6. CASE UserPlugin
  BY <1>1, <1>6 DEF UserPlugin, held, TheirsKept, KeptFile, KeptGroup, KeptText, KeptKey
<1>. QED
  BY <1>3, <1>4, <1>5, <1>6 DEF User

(* The steps of one file: what it becomes and what is said of it.          *)
FileStep(f, x, t) ==
  /\ disk' = [disk EXCEPT ![f] = x]
  /\ next'.keys = next.keys
  /\ \A i \in Tracked : next'.text[i] = IF i = f THEN t ELSE next.text[i]
  /\ theirs[f] # None => x = disk[f]
  /\ theirs[f] \notin UserText \cup {None} => t = None

LEMMA FileKeepsTheirs ==
  ASSUME HarnessAssumption, HarnessType, Order, TheirsKept, NEW f \in OurFiles,
         Place(f) \/ KeepOrphan(f) \/ RemoveFile(f)
  PROVE  TheirsKept'
<1>. SUFFICES ASSUME ~raced' PROVE TheirsKept'
  BY DEF TheirsKept
<1>1. /\ ~raced /\ f \in Tracked /\ f \in Items /\ step # "idle"
      /\ UNCHANGED <<manifest, prev, keys, block, groups, theirs>>
  BY ItemFacts DEF Place, KeepOrphan, RemoveFile, places, past
<1>2. prev.text[f] = manifest.text[f]
  BY <1>1 DEF Order
<1>3. \E x, t : FileStep(f, x, t)
  <2>a. KeptFile(f) /\ KeptText(f) /\ prev.text[f] \notin UserText /\ None \notin UserText
    BY <1>1, TextsOf DEF TheirsKept
  <2>b2. theirs[f] \notin UserText \cup {None} => next.text[f] = None
    BY <2>a DEF KeptText
  <2>b. disk = [disk EXCEPT ![f] = disk[f]]
    BY DEF HarnessType
  <2>1. CASE Place(f)
    <3>1. PICK o : o = InstallTracked(disk[f], prev.text[f], ShippedText(f))
      OBVIOUS
    <3>2. /\ disk' = [disk EXCEPT ![f] = o.there]
          /\ next' = [next EXCEPT !.text[f] = o.said]
          /\ ShippedText(f) # None
      BY <2>1, <3>1 DEF Place
    <3>3. Settled(disk[f], prev.text[f], ShippedText(f), o)
      BY <3>1, <3>2, InstallOutcome
    <3>4. theirs[f] # None => o.there = disk[f]
      BY <1>2, <2>a, <3>3 DEF Settled, KeptFile, KeptText
    <3>5. theirs[f] \notin UserText \cup {None} => o.said = None
      BY <1>2, <2>a, <3>3 DEF Settled, KeptFile, KeptText
    <3>6. PICK t : t = o.said
      OBVIOUS
    <3>7. next'.keys = next.keys /\ \A i \in Tracked : next'.text[i] = IF i = f THEN t ELSE next.text[i]
      BY <3>2, <3>6 DEF HarnessType, Manifests, Tracked
    <3>8. FileStep(f, o.there, t)
      BY <3>2, <3>4, <3>5, <3>6, <3>7 DEF FileStep
    <3>. QED
      BY <3>8
  <2>2. CASE KeepOrphan(f)
    <3>1. disk' = [disk EXCEPT ![f] = disk[f]]
      BY <2>2, <2>b DEF KeepOrphan, places
    <3>2. CASE next' = next
      <4>1. \A i \in Tracked : next'.text[i] = IF i = f THEN next.text[f] ELSE next.text[i]
        BY <3>2
      <4>2. theirs[f] \notin UserText \cup {None} => next.text[f] = None
        BY <2>b2
      <4>3. FileStep(f, disk[f], next.text[f])
        BY <3>1, <3>2, <4>1, <4>2 DEF FileStep
      <4>. QED
        BY <4>3
    <3>3. CASE next' = [next EXCEPT !.text[f] = prev.text[f]]
      <4>1. theirs[f] \notin UserText \cup {None} => prev.text[f] = None
        BY <1>2, <2>a DEF KeptText
      <4>2. PICK t : t = prev.text[f]
        OBVIOUS
      <4>3. next'.keys = next.keys /\ \A i \in Tracked : next'.text[i] = IF i = f THEN t ELSE next.text[i]
        BY <3>3, <4>2 DEF HarnessType, Manifests, Tracked
      <4>4. FileStep(f, disk[f], t)
        BY <3>1, <4>1, <4>2, <4>3 DEF FileStep
      <4>. QED
        BY <4>4
    <3>. QED
      BY <2>2, <3>2, <3>3 DEF KeepOrphan
  <2>3. CASE RemoveFile(f)
    <3>1. CASE disk[f] \in {<<>>, <<prev.text[f]>>}
      <4>1. theirs[f] = None
        BY <1>2, <2>a, <3>1 DEF KeptFile, KeptText
      <4>2. disk' = [disk EXCEPT ![f] = <<>>] /\ next' = next
        BY <2>3, <3>1 DEF RemoveFile
      <4>3. \A i \in Tracked : next'.text[i] = IF i = f THEN next.text[f] ELSE next.text[i]
        BY <4>2
      <4>4. FileStep(f, <<>>, next.text[f])
        BY <2>b2, <4>1, <4>2, <4>3 DEF FileStep
      <4>. QED
        BY <4>4
    <3>2. CASE disk[f] \notin {<<>>, <<prev.text[f]>>}
      <4>1. disk' = [disk EXCEPT ![f] = disk[f]] /\ next' = [next EXCEPT !.text[f] = prev.text[f]]
        BY <2>3, <2>b, <3>2 DEF RemoveFile
      <4>2. theirs[f] \notin UserText \cup {None} => prev.text[f] = None
        BY <1>2, <2>a DEF KeptText
      <4>3. PICK t : t = prev.text[f]
        OBVIOUS
      <4>4. next'.keys = next.keys /\ \A i \in Tracked : next'.text[i] = IF i = f THEN t ELSE next.text[i]
        BY <4>1, <4>3 DEF HarnessType, Manifests, Tracked
      <4>5. FileStep(f, disk[f], t)
        BY <4>1, <4>2, <4>3, <4>4 DEF FileStep
      <4>. QED
        BY <4>5
    <3>. QED
      BY <3>1, <3>2
  <2>. QED
    BY <2>1, <2>2, <2>3
<1>p. PICK x, t : FileStep(f, x, t)
  BY <1>3
<1>4. /\ disk' = [disk EXCEPT ![f] = x]
      /\ next'.keys = next.keys
      /\ \A i \in Tracked : next'.text[i] = IF i = f THEN t ELSE next.text[i]
      /\ theirs[f] # None => x = disk[f]
      /\ theirs[f] \notin UserText \cup {None} => t = None
  BY <1>p DEF FileStep
<1>5. \A g \in OurFiles : disk'[g] = IF g = f THEN x ELSE disk[g]
  BY <1>4 DEF HarnessType
<1>6. \A g \in OurFiles : KeptFile(g)'
  BY <1>1, <1>4, <1>5 DEF TheirsKept, KeptFile
<1>7. \A e \in Event : KeptGroup(e)'
  BY <1>1 DEF TheirsKept, KeptGroup
<1>8. \A i \in Tracked : KeptText(i)'
  BY <1>1, <1>4 DEF TheirsKept, KeptText
<1>9. \A k \in Key : KeptKey(k)'
  BY <1>1, <1>4 DEF TheirsKept, KeptKey
<1>. QED
  BY <1>6, <1>7, <1>8, <1>9 DEF TheirsKept

(* A save on the way in.                                                   *)
LEMMA SaveKeepsTheirs ==
  ASSUME HarnessAssumption, HarnessType, Order, TheirsKept, step = "save",
         NEW newKeys, NEW managed \in SUBSET Key,
         NEW keysOurs \in SUBSET Key, NEW always,
         Save(newKeys, managed, keysOurs, always),
         ~raced => \A k \in Key : theirs[k] # None => newKeys[k] = keys[k] /\ k \notin managed
  PROVE  TheirsKept'
<1>. SUFFICES ASSUME ~raced' PROVE TheirsKept'
  BY DEF TheirsKept
<1>1. UNCHANGED <<harness, edition, disk, block, plugin, manifest, prev, copy, todo, env,
                  theirs, quiet, crashed, raced, edits>> /\ keys' = newKeys
  BY DEF Save
<1>2. PICK hook : Saved(hook, managed, keysOurs)
  BY SaveFacts
<1>3. ~raced /\ copy.groups = groups /\ prev.text = manifest.text
  BY <1>1 DEF Order
<1>4. ASSUME Hooked, NEW e \in Event, theirs[e] # None
      PROVE  /\ groups'[e] = groups[e]
             /\ theirs[e] \notin UserText => next'.text[e] = None
  <2>1. /\ Settled(groups[e], prev.text[e], ShippedText(e), hook[e])
        /\ groups'[e] = hook[e].there /\ next'.text[e] = hook[e].said
    BY <1>2, <1>3, <1>4 DEF Saved
  <2>2. /\ Has(groups[e], theirs[e]) /\ groups[e] # <<>> /\ None \notin UserText
        /\ manifest.text[e] \notin UserText /\ KeptText(e)
    BY <1>3, <1>4, TextsOf, ItemFacts DEF TheirsKept, KeptGroup
  <2>3. groups[e] # <<prev.text[e]>> \/ prev.text[e] = None
    <3>. SUFFICES ASSUME groups[e] = <<manifest.text[e]>>, manifest.text[e] # None PROVE FALSE
      BY <1>3
    <3>1. theirs[e] = manifest.text[e]
      BY <2>2 DEF Has
    <3>. QED
      BY <1>4, <2>2, <3>1 DEF KeptText
  <2>4. groups'[e] = groups[e]
    BY <2>1, <2>2, <2>3 DEF Settled
  <2>5. theirs[e] \notin UserText => prev.text[e] = None
    BY <1>3, <1>4, <2>2 DEF KeptText
  <2>. QED
    BY <2>1, <2>2, <2>4, <2>5 DEF Settled
<1>5. ASSUME NEW e \in Event, theirs[e] # None
      PROVE  /\ groups'[e] = groups[e]
             /\ theirs[e] \notin UserText => next'.text[e] = None
  <2>1. CASE Hooked
    BY <1>4, <1>5, <2>1
  <2>2. CASE ~Hooked
    BY <1>2, <1>3, <1>5, <2>2, ItemFacts DEF Saved, TheirsKept, KeptText
  <2>. QED
    BY <2>1, <2>2
<1>6. \A f \in OurFiles : KeptFile(f)'
  BY <1>1, <1>3 DEF TheirsKept, KeptFile
<1>7. \A e \in Event : KeptGroup(e)'
  BY <1>1, <1>3, <1>5 DEF TheirsKept, KeptGroup
<1>8. \A i \in Tracked : KeptText(i)'
  <2>1. \A f \in OurFiles : KeptText(f)'
    BY <1>1, <1>2, <1>3, ItemFacts DEF TheirsKept, KeptText, Saved
  <2>2. \A e \in Event : KeptText(e)'
    BY <1>1, <1>3, <1>5, ItemFacts DEF TheirsKept, KeptText
  <2>. QED
    BY <2>1, <2>2 DEF Tracked
<1>9. \A k \in Key : KeptKey(k)'
  <2>1. next'.keys = managed
    BY <1>2 DEF Saved
  <2>. QED
    BY <1>1, <1>3, <2>1 DEF TheirsKept, KeptKey
<1>. QED
  BY <1>6, <1>7, <1>8, <1>9 DEF TheirsKept

LEMMA InstallKeepsTheirs ==
  ASSUME HarnessAssumption, HarnessType, Order, TheirsKept, Install
  PROVE  TheirsKept'
<1>1. CASE InstallStart
  <2>1. next'.keys = {} /\ \A i \in Tracked : next'.text[i] = None
    BY <1>1, BlankFacts DEF InstallStart, Manifests
  <2>. QED
    BY <1>1, <2>1 DEF InstallStart, places, TheirsKept, KeptFile, KeptGroup, KeptText, KeptKey
<1>2. CASE WireBlock
  <2>. SUFFICES ASSUME ~raced' PROVE TheirsKept'
    BY DEF TheirsKept
  <2>1. /\ UNCHANGED <<harness, edition, disk, groups, plugin, manifest, prev, copy, todo, env,
                       conflict, theirs, quiet, crashed, raced, edits>>
        /\ ~raced
    BY <1>2 DEF WireBlock
  <2>k. PICK kept : kept = RetireEnvHermes
    OBVIOUS
  <2>o. PICK outside : outside = [k \in Key |-> IF kept[k] # None THEN None ELSE keys[k]]
    OBVIOUS
  <2>n. PICK new : new = {k \in Wanted : outside[k] = None /\ kept[k] # env[k]}
    OBVIOUS
  <2>m. PICK match : match = {k \in Wanted \ new : outside[k] \in {None, env[k]}}
    OBVIOUS
  <2>2. /\ kept = RetireEnvHermes
        /\ outside = [k \in Key |-> IF kept[k] # None THEN None ELSE keys[k]]
        /\ new = {k \in Wanted : outside[k] = None /\ kept[k] # env[k]}
        /\ block' = [k \in Key |-> IF k \in new THEN env[k] ELSE kept[k]]
        /\ keys' = IF new = {} THEN keys ELSE outside
        /\ next' = [next EXCEPT !.keys = (new \cup (match \cap prev.keys) \cup Present(block'))
                                          \ RetiredKeys]
    BY <1>2, <2>k, <2>o, <2>n, <2>m DEF WireBlock
  <2>3. /\ next'.text = next.text
        /\ next'.keys \subseteq new \cup prev.keys \cup Present(block')
    BY <2>2 DEF HarnessType, Manifests
  <2>4. ASSUME NEW k \in Key, theirs[k] # None
        PROVE  keys'[k] = keys[k] /\ block'[k] = None /\ k \notin next'.keys
    <3>1. keys[k] # None /\ block[k] = None /\ k \notin prev.keys
      BY <2>1, <2>4 DEF TheirsKept, KeptKey
    <3>2. kept[k] = None
      BY <2>2, <3>1 DEF RetireEnvHermes
    <3>3. outside[k] = keys[k]
      BY <2>2, <3>2
    <3>4. k \notin new /\ block'[k] = None /\ keys'[k] = keys[k]
      BY <2>2, <3>1, <3>2, <3>3
    <3>. QED
      BY <2>3, <3>1, <3>4 DEF Present
  <2>. QED
    BY <2>1, <2>3, <2>4 DEF TheirsKept, KeptFile, KeptGroup, KeptText, KeptKey
<1>3. CASE LoadSettings
  BY <1>3 DEF LoadSettings, places, past, TheirsKept, KeptFile, KeptGroup, KeptText, KeptKey
<1>5. CASE SaveClaude \/ SaveOpencode
  <2>1. PICK loaded : loaded = RetireEnvClaude(copy.keys)
    OBVIOUS
  <2>2. PICK new : new = WireEnvClaude(loaded)
    OBVIOUS
  <2>3. /\ Save(new, Managed(loaded), Owned(loaded, new), TRUE)
        /\ step = "save" /\ harness # "hermes"
    BY <1>5, <2>1, <2>2 DEF SaveClaude, SaveOpencode, RetireConfigOpencode, WireEnvOpencode, Go
  <2>4. Managed(loaded) \in SUBSET Key /\ Owned(loaded, new) \in SUBSET Key
    BY DEF Managed, Owned
  <2>5. ASSUME ~raced, NEW k \in Key, theirs[k] # None
        PROVE  new[k] = keys[k] /\ k \notin Managed(loaded)
    <3>1. copy.keys = keys
      BY <2>3, <2>5 DEF Order
    <3>2. keys[k] # None /\ k \notin prev.keys
      BY <2>5 DEF TheirsKept, KeptKey
    <3>3. loaded[k] = keys[k]
      BY <2>1, <3>1, <3>2 DEF RetireEnvClaude
    <3>4. new[k] = keys[k]
      BY <2>2, <3>2, <3>3 DEF WireEnvClaude
    <3>. QED
      BY <3>2, <3>3, <3>4 DEF Managed
  <2>. QED
    BY <2>3, <2>4, <2>5, SaveKeepsTheirs
<1>6. CASE SaveHooks
  <2>1. Save(keys, next.keys, ours \cap Key, FALSE) /\ step = "save"
    BY <1>6 DEF SaveHooks, Go
  <2>2. next.keys \in SUBSET Key /\ ours \cap Key \in SUBSET Key
    BY DEF HarnessType, Manifests
  <2>3. ~raced => \A k \in Key : theirs[k] # None => keys[k] = keys[k] /\ k \notin next.keys
    BY DEF TheirsKept, KeptKey
  <2>. QED
    BY <2>1, <2>2, <2>3, SaveKeepsTheirs
<1>7. CASE InstallPlugin \/ WirePlugin
  <2>1. next'.text = next.text /\ next'.keys = next.keys
    BY <1>7 DEF InstallPlugin, WirePlugin, HarnessType, Manifests
  <2>2. UNCHANGED <<harness, disk, groups, keys, block, manifest, prev, theirs, raced>>
    BY <1>7 DEF InstallPlugin, WirePlugin, past
  <2>. QED
    BY <2>1, <2>2 DEF TheirsKept, KeptFile, KeptGroup, KeptText, KeptKey
<1>9. CASE WriteManifest
  BY <1>9, BlankFacts DEF WriteManifest, Fresh, places, past, TheirsKept, KeptFile, KeptGroup, KeptText, KeptKey
<1>10. ASSUME NEW f \in OurFiles, InstallSkill(f) \/ InstallAgent(f) \/ KeepOrphan(f)
       PROVE  TheirsKept'
  BY <1>10, FileKeepsTheirs DEF InstallSkill, InstallAgent
<1>. QED
  BY <1>1, <1>2, <1>3, <1>5, <1>6, <1>7, <1>9, <1>10 DEF Install

LEMMA UninstallKeepsTheirs ==
  ASSUME HarnessAssumption, HarnessType, Order, TheirsKept, Uninstall
  PROVE  TheirsKept'
<1>1. CASE UninstallStart
  <2>1. prev'.keys = manifest.keys /\ next' = Blank
    BY <1>1 DEF UninstallStart, HarnessType, Manifests
  <2>. QED
    BY <1>1, <2>1, BlankFacts DEF UninstallStart, places, TheirsKept, KeptFile, KeptGroup, KeptText, KeptKey
<1>2. CASE UninstallLoad
  BY <1>2 DEF UninstallLoad, places, past, TheirsKept, KeptFile, KeptGroup, KeptText, KeptKey
<1>3. ASSUME NEW gone \in SUBSET Key, gone \subseteq prev.keys, step = "u_save", SaveWithout(gone)
      PROVE  TheirsKept'
  <2>. SUFFICES ASSUME ~raced' PROVE TheirsKept'
    BY DEF TheirsKept
  <2>1. UNCHANGED <<harness, edition, disk, block, plugin, manifest, prev, copy, todo, env,
                    theirs, quiet, crashed, raced, edits>>
    BY <1>3 DEF SaveWithout
  <2>2. Removed(gone)
    BY <1>3, SaveWithoutFacts
  <2>3. ~raced /\ copy.groups = groups /\ prev.text = manifest.text
        /\ (harness # "hermes" => copy.keys = keys)
    BY <1>3, <2>1 DEF Order
  <2>4. ASSUME NEW e \in Event PROVE KeptGroup(e)' /\ KeptText(e)'
    <3>1. CASE theirs[e] = None
      BY <2>1, <3>1 DEF KeptGroup, KeptText
    <3>2. CASE theirs[e] # None
      <4>1. /\ Has(groups[e], theirs[e]) /\ theirs[e] \in Texts /\ KeptText(e)
            /\ manifest.text[e] \notin UserText
        BY <2>3, <2>4, <3>2, TextsOf, ItemFacts DEF TheirsKept, KeptGroup
      <4>2. theirs[e] # prev.text[e]
        BY <2>3, <3>2, <4>1 DEF KeptText
      <4>3. Has(groups'[e], theirs[e])
        BY <2>2, <2>3, <4>1, <4>2 DEF Removed
      <4>4. theirs[e] \notin UserText => next'.text[e] = None
        BY <2>2, <2>3, <3>2, <4>1 DEF Removed, KeptText
      <4>. QED
        BY <2>1, <3>2, <4>1, <4>3, <4>4 DEF KeptGroup, KeptText
    <3>. QED
      BY <3>1, <3>2
  <2>5. \A f \in OurFiles : KeptFile(f)' /\ KeptText(f)'
    BY <2>1, <2>2, <2>3, ItemFacts DEF TheirsKept, KeptFile, KeptText, Removed
  <2>6. \A k \in Key : KeptKey(k)'
    BY <1>3, <2>1, <2>2, <2>3 DEF TheirsKept, KeptKey, Removed
  <2>. QED
    BY <2>4, <2>5, <2>6 DEF TheirsKept, Tracked
<1>4. CASE UnwireClaude \/ UnwireOpencode \/ UnwireHooks
  <2>1. prev.keys \in SUBSET Key
    BY DEF HarnessType, Manifests
  <2>2. step = "u_save"
    BY <1>4 DEF UnwireClaude, UnwireOpencode, UnwireHooks, Go
  <2>. QED
    BY <1>3, <1>4, <2>1, <2>2 DEF UnwireClaude, UnwireOpencode, UnwireHooks
<1>5. CASE RemoveBlock
  <2>1. \A k \in Key : block'[k] = None
    BY <1>5 DEF RemoveBlock, Unset
  <2>. QED
    BY <1>5, <2>1 DEF RemoveBlock, held, TheirsKept, KeptFile, KeptGroup, KeptText, KeptKey
<1>6. CASE UnregisterPlugin \/ RemovePlugin
  BY <1>6 DEF UnregisterPlugin, RemovePlugin, held, past, TheirsKept, KeptFile, KeptGroup, KeptText, KeptKey
<1>7. CASE UninstallManifest
  <2>1. manifest'.text = next.text /\ manifest'.keys = next.keys
    BY <1>7 DEF UninstallManifest, HarnessType, Manifests
  <2>. QED
    BY <1>7, <2>1, BlankFacts DEF UninstallManifest, Fresh, places, past, TheirsKept, KeptFile, KeptGroup, KeptText, KeptKey
<1>8. ASSUME NEW f \in OurFiles, RemoveFile(f) PROVE  TheirsKept'
  BY <1>8, FileKeepsTheirs
<1>. QED
  BY <1>1, <1>2, <1>4, <1>5, <1>6, <1>7, <1>8 DEF Uninstall

LEMMA TheirsStep ==
  ASSUME HarnessAssumption, HarnessType, Order, TheirsKept, [HarnessNext]_harnessVars
  PROVE  TheirsKept'
<1>1. CASE Upgrade \/ UNCHANGED harnessVars
  BY <1>1 DEF Upgrade, harnessVars, places, held, past, TheirsKept, KeptFile, KeptGroup, KeptText, KeptKey
<1>2. CASE BreaksOff
  BY <1>2, BlankFacts DEF BreaksOff, Fresh, places, TheirsKept, KeptFile, KeptGroup, KeptText, KeptKey
<1>. QED
  BY <1>1, <1>2, InstallKeepsTheirs, UninstallKeepsTheirs, UserKeepsTheirs DEF HarnessNext

(* Theorem: what the user keeps under a name that is not the tool's, and   *)
(* what the user made of the tool's files and hook groups, stands through  *)
(* any number of installs, upgrades, uninstalls and deaths of a run, for   *)
(* any files, hooks, keys and releases - unless the settings were saved    *)
(* while a run held them.                                                  *)
THEOREM UsersFilesStand == HarnessSpec => []TheirsStand
<1>1. HarnessInit => HarnessType /\ Order /\ TheirsKept
  BY HarnessAssumption, HarnessTypeInit, OrderInit, TheirsInit
<1>2. HarnessType /\ Order /\ TheirsKept /\ [HarnessNext]_harnessVars => (HarnessType /\ Order /\ TheirsKept)'
  BY HarnessAssumption, HarnessTypeStep, OrderStep, TheirsStep
<1>3. HarnessType /\ Order /\ TheirsKept => TheirsStand
  <2>. SUFFICES ASSUME TheirsKept, ~raced, NEW i \in Items, theirs[i] # None PROVE Stands(i)
    BY DEF TheirsStand
  <2>1. CASE i \in OurFiles
    BY <2>1, HarnessAssumption, ItemFacts DEF TheirsKept, KeptFile, Stands
  <2>2. CASE i \in Event
    <3>1. i \notin OurFiles /\ Has(groups[i], theirs[i])
      BY <2>2, HarnessAssumption, ItemFacts DEF TheirsKept, KeptGroup
    <3>2. Stands(i) = \E n \in DOMAIN groups[i] : groups[i][n] = theirs[i]
      BY <2>2, <3>1, HarnessAssumption, ItemFacts DEF Stands
    <3>. QED
      BY <3>1, <3>2 DEF Has
  <2>3. CASE i \in Key
    BY <2>3, HarnessAssumption, ItemFacts DEF TheirsKept, KeptKey, Stands
  <2>. QED
    BY <2>1, <2>2, <2>3 DEF Items, Tracked
<1>. QED
  BY <1>1, <1>2, <1>3, PTL DEF HarnessSpec
-----------------------------------------------------------------------------
LEMMA FoundInit ==
  ASSUME HarnessInit PROVE Found
BY DEF HarnessInit, Found, PluginFound, Installing

LEMMA FileKeepsFound ==
  ASSUME HarnessAssumption, HarnessType, Order, Found, NEW f \in OurFiles,
         Place(f) \/ KeepOrphan(f) \/ RemoveFile(f)
  PROVE  Found'
<1>. SUFFICES ASSUME ~crashed', ~raced' PROVE Found'
  BY DEF Found
<1>1. /\ UNCHANGED <<harness, edition, groups, keys, block, plugin, manifest, step, prev, copy,
                     env, theirs, quiet, crashed, raced, edits>>
      /\ todo' = todo \ {f} /\ f \in todo /\ f \in Tracked /\ step # "idle"
      /\ \A i \in ours' : i # f => i \in ours
  BY ItemFacts DEF Place, KeepOrphan, RemoveFile, Turn, Touched, places, past
<1>2. PICK t : next' = next \/ next' = [next EXCEPT !.text[f] = t]
  BY DEF Place, KeepOrphan, RemoveFile
<1>3. /\ next'.keys = next.keys /\ next'.written = next.written /\ next'.plugin = next.plugin
      /\ \A i \in Tracked : i # f => next'.text[i] = next.text[i]
  BY <1>2 DEF HarnessType, Manifests
<1>4. \A g \in OurFiles : g # f => disk'[g] = disk[g]
  BY DEF Place, KeepOrphan, RemoveFile, HarnessType, places
<1>5. f \in ours' => disk'[f] # <<>> /\ next'.text[f] # None
  <2>1. CASE Place(f)
    <3>1. PICK o : o = InstallTracked(disk[f], prev.text[f], ShippedText(f))
      OBVIOUS
    <3>2. /\ disk' = [disk EXCEPT ![f] = o.there]
          /\ next' = [next EXCEPT !.text[f] = o.said]
          /\ ours' = Touched(f, disk[f], o)
          /\ ShippedText(f) # None
      BY <2>1, <3>1 DEF Place
    <3>3. Settled(disk[f], prev.text[f], ShippedText(f), o)
      BY <3>1, <3>2, InstallOutcome
    <3>4. disk'[f] = o.there /\ next'.text[f] = o.said
      BY <1>1, <3>2 DEF HarnessType, Manifests
    <3>5. CASE o.there # disk[f]
      BY <3>2, <3>3, <3>4, <3>5 DEF Settled
    <3>6. CASE o.there = disk[f]
      <4>1. ours' = ours
        BY <3>2, <3>6 DEF Touched
      <4>2. f \in ours => disk[f] # <<>> /\ prev.text[f] # None
        BY <1>1 DEF Found, FileFound
      <4>. QED
        BY <3>3, <3>4, <3>6, <4>1, <4>2 DEF Settled
    <3>. QED
      BY <3>5, <3>6
  <2>2. CASE KeepOrphan(f) \/ RemoveFile(f)
    <3>1. f \in ours' => f \in ours
      BY <2>2 DEF KeepOrphan, RemoveFile, past
    <3>2. f \in ours => disk[f] # <<>> /\ prev.text[f] # None
      BY <1>1 DEF Found, FileFound
    <3>. QED
      BY <1>1, <2>2, <3>1, <3>2 DEF KeepOrphan, RemoveFile, HarnessType, Manifests, places, past
  <2>. QED
    BY <2>1, <2>2
<1>6. \A g \in OurFiles \cap ours' : FileFound(g)'
  BY <1>1, <1>3, <1>4, <1>5, ItemFacts DEF Found, FileFound
<1>7. \A e \in Event \cap ours' : GroupFound(e)'
  <2>. SUFFICES ASSUME NEW e \in Event \cap ours' PROVE GroupFound(e)'
    OBVIOUS
  <2>1. GroupFound(e) /\ next'.text[e] = next.text[e]
    BY <1>1, <1>3, ItemFacts DEF Found
  <2>. QED
    BY <1>1, <2>1 DEF GroupFound, Hooked
<1>8. \A k \in Key \cap ours' : KeyFound(k)'
  BY <1>1, <1>3, ItemFacts DEF Found, KeyFound
<1>9. PluginFound' /\ (step' \in Installing => next'.written)
  BY <1>1, <1>3 DEF Found, PluginFound
<1>. QED
  BY <1>6, <1>7, <1>8, <1>9 DEF Found

(* A save on the way in.                                                   *)
LEMMA SaveKeepsFound ==
  ASSUME HarnessAssumption, HarnessType, Order, Found, step = "save",
         step' \in {"plugin", "manifest"}, step' = "plugin" <=> harness = "opencode",
         NEW newKeys, NEW managed \in SUBSET Key,
         NEW keysOurs \in SUBSET Key, NEW always,
         Save(newKeys, managed, keysOurs, always),
         ~crashed /\ ~raced => \A k \in keysOurs : k \in managed /\ (harness = "hermes" => KeyFound(k)),
         keysOurs # {} => harness \in {"claude", "opencode", "hermes"}
  PROVE  Found'
<1>. SUFFICES ASSUME ~crashed', ~raced' PROVE Found'
  BY DEF Found
<1>1. UNCHANGED <<harness, edition, disk, block, plugin, manifest, prev, copy, todo, env,
                  theirs, quiet, crashed, raced, edits>>
  BY DEF Save
<1>2. PICK hook : Saved(hook, managed, keysOurs)
  BY SaveFacts
<1>3. ~raced /\ ~crashed /\ copy.groups = groups /\ todo = {}
  BY <1>1 DEF Order, Installing
<1>4. \A f \in OurFiles \cap ours' : FileFound(f)'
  <2>. SUFFICES ASSUME NEW f \in OurFiles \cap ours' PROVE FileFound(f)'
    OBVIOUS
  <2>1. f \in ours /\ next'.text[f] = next.text[f]
    BY <1>2, ItemFacts DEF Saved
  <2>. QED
    BY <1>1, <1>3, <2>1 DEF Found, FileFound
<1>5. \A e \in Event \cap ours' : GroupFound(e)'
  <2>. SUFFICES ASSUME NEW e \in Event \cap ours' PROVE GroupFound(e)'
    OBVIOUS
  <2>1. e \notin keysOurs /\ e \in Tracked
    BY ItemFacts
  <2>2. CASE e \in ours
    <3>1. groups[e] # <<>> /\ Hooked /\ prev.text[e] # None
      BY <1>3, <2>2 DEF Found, GroupFound
    <3>2. /\ Settled(groups[e], prev.text[e], ShippedText(e), hook[e])
          /\ groups'[e] \in {hook[e].there, groups[e]} /\ next'.text[e] = hook[e].said
      BY <1>2, <1>3, <3>1 DEF Saved
    <3>3. groups'[e] # <<>> /\ next'.text[e] # None
      BY <3>1, <3>2 DEF Settled
    <3>. QED
      BY <1>1, <3>1, <3>3 DEF GroupFound, Hooked
  <2>3. CASE e \notin ours
    <3>1. Hooked /\ hook[e].there # copy.groups[e]
      BY <1>2, <2>1, <2>3 DEF Saved
    <3>2. /\ Settled(groups[e], prev.text[e], ShippedText(e), hook[e])
          /\ groups'[e] = hook[e].there /\ next'.text[e] = hook[e].said
      BY <1>2, <1>3, <3>1 DEF Saved
    <3>3. ShippedText(e) # None
      BY <2>1, <3>1, ShippedFacts DEF HarnessType, Shipped
    <3>4. groups'[e] # <<>> /\ next'.text[e] # None
      BY <1>3, <3>1, <3>2, <3>3 DEF Settled
    <3>. QED
      BY <1>1, <3>1, <3>4 DEF GroupFound, Hooked
  <2>. QED
    BY <2>2, <2>3
<1>6. \A k \in Key \cap ours' : KeyFound(k)'
  <2>. SUFFICES ASSUME NEW k \in Key \cap ours' PROVE KeyFound(k)'
    OBVIOUS
  <2>1. k \in keysOurs /\ next'.keys = managed
    BY <1>2, ItemFacts DEF Saved
  <2>. QED
    BY <1>1, <1>3, <2>1 DEF KeyFound
<1>7. PluginFound' /\ (step' \in Installing => next'.written)
  BY <1>1, <1>2, <1>3 DEF Found, PluginFound, Saved, Installing
<1>. QED
  BY <1>4, <1>5, <1>6, <1>7 DEF Found

LEMMA UserKeepsFound ==
  ASSUME HarnessAssumption, HarnessType, Order, Found, User
  PROVE  Found'
<1>1. ASSUME NEW i, UserEdits(i)
      PROVE  /\ UNCHANGED <<harness, edition, block, manifest, step, prev, next, todo, crashed>>
             /\ ours' = ours \ {i}
  BY <1>1 DEF UserEdits, held
<1>2. ASSUME NEW f \in OurFiles, UserFile(f) PROVE Found'
  <2>1. \A g \in OurFiles : g # f => disk'[g] = disk[g]
    BY <1>2 DEF UserFile, HarnessType
  <2>2. UNCHANGED <<groups, keys, plugin, raced>>
    BY <1>2 DEF UserFile
  <2>. QED
    BY <1>1, <1>2, <2>1, <2>2 DEF UserFile, Found, FileFound, GroupFound, KeyFound, PluginFound, Hooked
<1>3. ASSUME NEW e \in Event, UserGroup(e) PROVE Found'
  <2>1. \A g \in Event : g # e => groups'[g] = groups[g]
    BY <1>3 DEF UserGroup, HarnessType
  <2>2. UNCHANGED <<disk, keys, plugin>> /\ (~raced' => ~raced)
    BY <1>3 DEF UserGroup
  <2>. QED
    BY <1>1, <1>3, <2>1, <2>2 DEF UserGroup, Found, FileFound, GroupFound, KeyFound, PluginFound, Hooked
<1>4. ASSUME NEW k \in Key, UserKey(k) PROVE Found'
  <2>1. UNCHANGED <<disk, groups, plugin>> /\ (~raced' => ~raced)
    BY <1>4 DEF UserKey
  <2>. QED
    BY <1>1, <1>4, <2>1 DEF UserKey, Found, FileFound, GroupFound, KeyFound, PluginFound, Hooked
<1>5. CASE UserPlugin
  <2>1. UNCHANGED <<disk, groups, keys, raced>> /\ plugin'.files = plugin.files
    BY <1>5 DEF UserPlugin, HarnessType
  <2>. QED
    BY <1>1, <1>5, <2>1 DEF UserPlugin, Found, FileFound, GroupFound, KeyFound, PluginFound, Hooked
<1>. QED
  BY <1>2, <1>3, <1>4, <1>5 DEF User

LEMMA InstallKeepsFound ==
  ASSUME HarnessAssumption, HarnessType, Order, Found, Install
  PROVE  Found'
<1>. USE DEF Found, FileFound, GroupFound, KeyFound, PluginFound, Hooked, Go
<1>1. CASE InstallStart
  <2>1. next'.written
    BY <1>1 DEF InstallStart, Blank
  <2>2. \A f \in OurFiles : manifest.text[f] # None => f \in todo'
    BY <1>1 DEF InstallStart
  <2>. QED
    BY <1>1, <2>1, <2>2 DEF InstallStart, places
<1>2. CASE WireBlock
  <2>. SUFFICES ASSUME ~crashed', ~raced' PROVE Found'
    OBVIOUS
  <2>1. /\ UNCHANGED <<harness, edition, disk, groups, plugin, manifest, prev, copy, todo, env,
                       conflict, theirs, quiet, crashed, raced, edits>>
        /\ harness = "hermes" /\ todo = {} /\ step = "files" /\ step' = "block"
    BY <1>2 DEF WireBlock
  <2>k. PICK kept : kept = RetireEnvHermes
    OBVIOUS
  <2>o. PICK outside : outside = [k \in Key |-> IF kept[k] # None THEN None ELSE keys[k]]
    OBVIOUS
  <2>n. PICK new : new = {k \in Wanted : outside[k] = None /\ kept[k] # env[k]}
    OBVIOUS
  <2>m. PICK match : match = {k \in Wanted \ new : outside[k] \in {None, env[k]}}
    OBVIOUS
  <2>2. /\ block' = [k \in Key |-> IF k \in new THEN env[k] ELSE kept[k]]
        /\ next' = [next EXCEPT !.keys = (new \cup (match \cap prev.keys) \cup Present(block'))
                                            \ RetiredKeys]
        /\ ours' = (ours \cup new) \ (Key \ Present(block'))
    BY <1>2, <2>k, <2>o, <2>n, <2>m DEF WireBlock
  <2>3. /\ next'.text = next.text /\ next'.written = next.written
        /\ next'.keys = (new \cup (match \cap prev.keys) \cup Present(block')) \ RetiredKeys
    BY <2>2 DEF HarnessType, Manifests
  <2>4. \A i \in ours' : i \notin Key => i \in ours
    BY <2>2, <2>n DEF Wanted, Present
  <2>5. \A k \in Key \cap ours' : block'[k] # None
    BY <2>2 DEF Present
  <2>6. \A k \in Key \cap ours' : k \in next'.keys
    <3>. SUFFICES ASSUME NEW k \in Key \cap ours' PROVE k \in next'.keys
      OBVIOUS
    <3>1. k \in Present(block')
      BY <2>5 DEF Present
    <3>2. k \notin RetiredKeys
      BY <2>2, <2>5, <2>k, <2>n DEF RetireEnvHermes, Wanted
    <3>. QED
      BY <2>3, <3>1, <3>2
  <2>7. \A f \in OurFiles \cap ours' : FileFound(f)'
    BY <2>1, <2>3, <2>4, ItemFacts
  <2>8. \A e \in Event \cap ours' : GroupFound(e)'
    BY <2>1, <2>4, ItemFacts
  <2>9. \A k \in Key \cap ours' : KeyFound(k)'
    BY <2>1, <2>5, <2>6
  <2>10. PluginFound' /\ (step' \in Installing => next'.written)
    BY <2>1, <2>3 DEF Installing
  <2>. QED
    BY <2>1, <2>7, <2>8, <2>9, <2>10
<1>3. CASE LoadSettings
  BY <1>3 DEF LoadSettings, places, past, Order, Installing
<1>5. CASE SaveClaude \/ SaveOpencode
  <2>1. PICK loaded : loaded = RetireEnvClaude(copy.keys)
    OBVIOUS
  <2>2. PICK new : new = WireEnvClaude(loaded)
    OBVIOUS
  <2>3. /\ Save(new, Managed(loaded), Owned(loaded, new), TRUE)
        /\ step = "save" /\ harness \in {"claude", "opencode"}
        /\ step' \in {"plugin", "manifest"} /\ (step' = "plugin" <=> harness = "opencode")
    BY <1>5, <2>1, <2>2 DEF SaveClaude, SaveOpencode, RetireConfigOpencode, WireEnvOpencode
  <2>4. Managed(loaded) \in SUBSET Key /\ Owned(loaded, new) \in SUBSET Key
    BY DEF Managed, Owned
  <2>5. ASSUME ~crashed, ~raced, NEW k \in Owned(loaded, new) PROVE k \in Managed(loaded)
    <3>1. k \in Key /\ new[k] # None
      BY DEF Owned
    <3>2. CASE new[k] # loaded[k]
      <4>1. k \in Wanted /\ loaded[k] = None
        BY <2>2, <3>1, <3>2 DEF WireEnvClaude
      <4>. QED
        BY <3>1, <4>1 DEF Managed, Wanted
    <3>3. CASE new[k] = loaded[k]
      <4>1. k \in ours
        BY <3>3 DEF Owned
      <4>2. k \in prev.keys
        BY <2>3, <2>5, <3>1, <4>1
      <4>3. k \notin RetiredKeys
        BY <2>1, <3>1, <3>3, <4>2 DEF RetireEnvClaude
      <4>. QED
        BY <3>1, <3>3, <4>2, <4>3 DEF Managed
    <3>. QED
      BY <3>2, <3>3
  <2>. HIDE DEF Found, KeyFound
  <2>. QED
    BY <2>3, <2>4, <2>5, SaveKeepsFound
<1>6. CASE SaveHooks
  <2>1. /\ Save(keys, next.keys, ours \cap Key, FALSE)
        /\ step = "save" /\ step' = "manifest" /\ harness \in {"codex", "agy", "hermes"}
    BY <1>6 DEF SaveHooks
  <2>2. next.keys \in SUBSET Key /\ ours \cap Key \in SUBSET Key
    BY DEF HarnessType, Manifests
  <2>3. ~crashed /\ ~raced => \A k \in ours \cap Key : KeyFound(k) /\ k \in next.keys /\ harness = "hermes"
    BY <2>1
  <2>4. CASE crashed \/ raced
    BY <2>1, <2>4 DEF Save
  <2>5. CASE ~crashed /\ ~raced
    <3>1. ours \cap Key # {} => harness = "hermes"
      BY <2>3, <2>5
    <3>. HIDE DEF Found, KeyFound
    <3>. QED
      BY <2>1, <2>2, <2>3, <2>5, <3>1, SaveKeepsFound
  <2>. QED
    BY <2>4, <2>5
<1>7. CASE InstallPlugin
  <2>1. /\ next'.text = next.text /\ next'.keys = next.keys /\ next'.written = next.written
        /\ (next'.plugin <=> plugin.files # edition) /\ edition # 0
    <3>1. PICK b \in BOOLEAN : b <=> plugin.files # edition
      OBVIOUS
    <3>2. next' = [next EXCEPT !.plugin = b]
      BY <1>7, <3>1 DEF InstallPlugin
    <3>3. edition # 0
      BY HarnessAssumption DEF HarnessType
    <3>. QED
      BY <3>1, <3>2, <3>3 DEF HarnessType, Manifests
  <2>2. UNCHANGED <<harness, edition, disk, groups, keys, block, manifest, prev, todo, past>>
        /\ step = "plugin" /\ step' = "register"
    BY <1>7 DEF InstallPlugin
  <2>. QED
    BY <2>1, <2>2 DEF past, Order, Installing
<1>8. CASE WirePlugin
  <2>1. /\ next'.text = next.text /\ next'.keys = next.keys /\ next'.written = next.written
        /\ next.plugin \/ prev.plugin => next'.plugin
        /\ plugin'.files = plugin.files
    BY <1>8 DEF WirePlugin, HarnessType, Manifests
  <2>2. UNCHANGED <<harness, edition, disk, groups, keys, block, manifest, prev, todo, past>>
        /\ step = "register" /\ step' = "manifest"
    BY <1>8 DEF WirePlugin
  <2>. QED
    BY <2>1, <2>2 DEF past, Order, Installing
<1>9. CASE WriteManifest
  <2>1. /\ UNCHANGED <<harness, edition, places, past>> /\ manifest' = next
        /\ step = "manifest" /\ step' = "idle" /\ todo = {}
    BY <1>9 DEF WriteManifest, Order, Installing
  <2>. QED
    BY <2>1 DEF past, places, Installing
<1>10. ASSUME NEW f \in OurFiles, InstallSkill(f) \/ InstallAgent(f) \/ KeepOrphan(f)
       PROVE  Found'
  BY <1>10, FileKeepsFound DEF InstallSkill, InstallAgent
<1>. QED
  BY <1>1, <1>2, <1>3, <1>5, <1>6, <1>7, <1>8, <1>9, <1>10 DEF Install

LEMMA UninstallKeepsFound ==
  ASSUME HarnessAssumption, HarnessType, Order, Found, Uninstall
  PROVE  Found'
<1>. USE DEF Found, FileFound, GroupFound, KeyFound, PluginFound, Hooked, Go
<1>1. CASE UninstallStart
  <2>1. /\ prev'.keys = manifest.keys /\ prev'.text = manifest.text
        /\ manifest.plugin => prev'.plugin
    BY <1>1 DEF UninstallStart, HarnessType, Manifests
  <2>2. \A f \in OurFiles : manifest.text[f] # None => f \in todo'
    BY <1>1 DEF UninstallStart
  <2>. QED
    BY <1>1, <2>1, <2>2 DEF UninstallStart, places, Installing
<1>2. CASE UninstallLoad
  BY <1>2 DEF UninstallLoad, places, past, Installing
<1>3. ASSUME NEW gone \in SUBSET Key, step = "u_save", SaveWithout(gone),
             step' \in {"u_files", "u_plugin", "u_block"},
             step' = "u_plugin" <=> harness = "opencode", step' = "u_block" <=> harness = "hermes",
             harness \in {"claude", "opencode"} => gone = prev.keys
      PROVE  Found'
  <2>. SUFFICES ASSUME ~crashed', ~raced' PROVE Found'
    OBVIOUS
  <2>1. UNCHANGED <<harness, edition, disk, block, plugin, manifest, prev, copy, todo, env,
                    theirs, quiet, crashed, raced, edits>>
    BY <1>3 DEF SaveWithout
  <2>2. Removed(gone)
    BY <1>3, SaveWithoutFacts
  <2>3. ~raced /\ ~crashed /\ copy.groups = groups
    BY <1>3, <2>1 DEF Order
  <2>4. \A f \in OurFiles \cap ours' : FileFound(f)'
    BY <1>3, <2>1, <2>2, <2>3 DEF Removed
  <2>5. \A e \in Event \cap ours' : GroupFound(e)'
    <3>. SUFFICES ASSUME NEW e \in Event \cap ours' PROVE GroupFound(e)'
      OBVIOUS
    <3>1. groups[e] # <<>> /\ Hooked /\ prev.text[e] # None
      BY <1>3, <2>2, <2>3 DEF Removed
    <3>2. groups'[e] = groups[e] /\ next'.text[e] = prev.text[e]
      BY <2>2, <2>3, <3>1 DEF Removed
    <3>. QED
      BY <1>3, <2>1, <3>1, <3>2
  <2>6. \A k \in Key \cap ours' : KeyFound(k)'
    BY <1>3, <2>1, <2>2, <2>3 DEF Removed
  <2>7. PluginFound' /\ (step' \in Installing => next'.written)
    BY <1>3, <2>1, <2>3 DEF Installing
  <2>. QED
    BY <2>4, <2>5, <2>6, <2>7
<1>4. CASE UnwireClaude \/ UnwireOpencode \/ UnwireHooks
  <2>1. prev.keys \in SUBSET Key
    BY DEF HarnessType, Manifests
  <2>. HIDE DEF Found
  <2>. QED
    BY <1>3, <1>4, <2>1 DEF UnwireClaude, UnwireOpencode, UnwireHooks
<1>5. CASE RemoveBlock
  <2>1. \A k \in Key \cap ours' : block[k] = None
    BY <1>5 DEF RemoveBlock, Present
  <2>. QED
    BY <1>5, <2>1 DEF RemoveBlock, held, Order, Installing
<1>6. CASE UnregisterPlugin
  <2>1. plugin'.files = plugin.files
    BY <1>6 DEF UnregisterPlugin, HarnessType
  <2>. QED
    BY <1>6, <2>1 DEF UnregisterPlugin, held, past, Order, Installing
<1>7. CASE RemovePlugin
  <2>1. plugin'.files = 0
    BY <1>7 DEF RemovePlugin, HarnessType
  <2>. QED
    BY <1>7, <2>1 DEF RemovePlugin, held, past, Order, Installing
<1>8. CASE UninstallManifest
  <2>1. manifest'.text = next.text
    BY <1>8 DEF UninstallManifest, HarnessType, Manifests
  <2>2. /\ UNCHANGED <<harness, edition, places, past>>
        /\ step = "u_files" /\ step' = "idle" /\ todo = {}
    BY <1>8 DEF UninstallManifest
  <2>. QED
    BY <2>1, <2>2 DEF past, places, Installing
<1>9. ASSUME NEW f \in OurFiles, RemoveFile(f) PROVE  Found'
  BY <1>9, FileKeepsFound
<1>. QED
  BY <1>1, <1>2, <1>4, <1>5, <1>6, <1>7, <1>8, <1>9 DEF Uninstall

LEMMA FoundStep ==
  ASSUME HarnessAssumption, HarnessType, Order, Found, [HarnessNext]_harnessVars
  PROVE  Found'
<1>1. CASE Upgrade \/ UNCHANGED harnessVars
  BY <1>1 DEF Upgrade, harnessVars, places, held, past, Found, FileFound, GroupFound, KeyFound,
              PluginFound, Hooked
<1>2. CASE BreaksOff
  BY <1>2 DEF BreaksOff, Found
<1>. QED
  BY <1>1, <1>2, InstallKeepsFound, UninstallKeepsFound, UserKeepsFound DEF HarnessNext

(* Theorem: as long as no run has died and none was overtaken by another   *)
(* writer of the settings, everything the tool put on disk is on record    *)
(* between runs, for any files, hooks, keys and releases.                  *)
THEOREM NothingIsLeaked == HarnessSpec => []NothingLeaks
<1>1. HarnessInit => HarnessType /\ Order /\ Found
  BY HarnessAssumption, HarnessTypeInit, OrderInit, FoundInit
<1>2. HarnessType /\ Order /\ Found /\ [HarnessNext]_harnessVars => (HarnessType /\ Order /\ Found)'
  BY HarnessAssumption, HarnessTypeStep, OrderStep, FoundStep
<1>3. HarnessType /\ Found => NothingLeaks
  <2>. SUFFICES ASSUME HarnessType, Found, ~Running, ~crashed, ~raced
                PROVE  (\A i \in ours : OnRecord(i)) /\ (~manifest.written => plugin.files = 0)
    BY DEF NothingLeaks
  <2>1. step = "idle"
    BY DEF Running
  <2>2. ASSUME NEW i \in ours PROVE OnRecord(i)
    <3>1. i \in OurFiles \/ i \in Event \/ i \in Key
      BY DEF HarnessType, Items, Tracked
    <3>2. i \in Tracked => i \notin Key
      BY HarnessAssumption
    <3>. QED
      BY <2>1, <3>1, <3>2, HarnessAssumption, ItemFacts
         DEF Found, FileFound, GroupFound, KeyFound, OnRecord
  <2>3. ~manifest.written => plugin.files = 0
    BY <2>1 DEF Found, PluginFound
  <2>. QED
    BY <2>2, <2>3
<1>. QED
  BY <1>1, <1>2, <1>3, PTL DEF HarnessSpec
-----------------------------------------------------------------------------
LEMMA SoFarInit ==
  ASSUME HarnessInit PROVE SoFar
BY DEF HarnessInit, SoFar, Installing

LEMMA FileKeepsSoFar ==
  ASSUME HarnessAssumption, HarnessType, Order, SoFar, NEW f \in OurFiles,
         Place(f) \/ KeepOrphan(f)
  PROVE  SoFar'
<1>. SUFFICES ASSUME quiet', conflict' = FALSE PROVE SoFar'
  BY DEF SoFar, Place, KeepOrphan, HarnessType
<1>1. /\ UNCHANGED <<harness, edition, groups, keys, block, plugin, manifest, step, prev, copy,
                     env, theirs, quiet, crashed, raced, edits>>
      /\ todo' = todo \ {f} /\ f \in todo /\ f \in Tracked /\ step = "files"
  BY ItemFacts DEF Place, KeepOrphan, Turn, places, past
<1>2. PICK t : next' = next \/ next' = [next EXCEPT !.text[f] = t]
  BY DEF Place, KeepOrphan
<1>3. \A i \in Tracked : i # f => next'.text[i] = next.text[i]
  BY <1>2 DEF HarnessType, Manifests
<1>4. \A g \in OurFiles : g # f => disk'[g] = disk[g]
  BY DEF Place, KeepOrphan, HarnessType, places
<1>5. quiet /\ conflict = FALSE
  <2>1. quiet /\ ((conflict' <=> conflict) \/ (Place(f) /\ (conflict => conflict')))
    BY <1>1 DEF KeepOrphan, Place
  <2>. QED
    BY <1>1, <2>1 DEF HarnessType
<1>6. \A g \in OurFiles : ShippedText(g)' = ShippedText(g)
  BY <1>1 DEF ShippedText, Hooked
<1>7. ShippedText(f) # None => FileIn(f)'
  <2>. SUFFICES ASSUME ShippedText(f) # None, Place(f) PROVE FileIn(f)'
    BY DEF KeepOrphan
  <2>1. PICK o : o = InstallTracked(disk[f], prev.text[f], ShippedText(f))
    OBVIOUS
  <2>2. /\ disk' = [disk EXCEPT ![f] = o.there]
        /\ next' = [next EXCEPT !.text[f] = o.said]
        /\ conflict' = (conflict \/ o.clash)
    BY <2>1 DEF Place
  <2>3. Settled(disk[f], prev.text[f], ShippedText(f), o)
    BY <2>1, InstallOutcome
  <2>4. o.there = <<ShippedText(f)>> /\ o.said = ShippedText(f)
    BY <2>2, <2>3 DEF Settled
  <2>5. disk'[f] = o.there /\ next'.text[f] = o.said
    BY <1>1, <2>2 DEF HarnessType, Manifests
  <2>. QED
    BY <1>6, <2>4, <2>5 DEF FileIn
<1>8. \A g \in OurFiles : ShippedText(g) # None => g \in todo' \/ FileIn(g)'
  <2>1. \A g \in OurFiles : ShippedText(g) # None => g \in todo \/ FileIn(g)
    BY <1>1, <1>5 DEF SoFar, Installing
  <2>. QED
    BY <1>1, <1>3, <1>4, <1>6, <1>7, <2>1, ItemFacts DEF FileIn
<1>. QED
  BY <1>1, <1>6, <1>8 DEF SoFar

LEMMA SaveKeepsSoFar ==
  ASSUME HarnessAssumption, HarnessType, Order, SoFar, step = "save",
         step' \in {"plugin", "manifest"}, step' = "plugin" <=> harness = "opencode",
         NEW newKeys, NEW managed \in SUBSET Key,
         NEW keysOurs \in SUBSET Key, NEW always,
         Save(newKeys, managed, keysOurs, always),
         harness \in {"claude", "opencode"} => \A k \in Wanted : newKeys[k] # None,
         harness = "hermes" => newKeys = keys
  PROVE  SoFar'
<1>. SUFFICES ASSUME quiet', conflict' = FALSE PROVE SoFar'
  BY SaveFacts DEF SoFar
<1>1. UNCHANGED <<harness, edition, disk, block, plugin, manifest, prev, copy, todo, env,
                  theirs, quiet, crashed, raced, edits>> /\ keys' = newKeys
  BY DEF Save
<1>2. PICK hook : Saved(hook, managed, keysOurs)
  BY SaveFacts
<1>3. quiet /\ ~conflict /\ copy.groups = groups /\ todo = {}
  BY <1>1, <1>2 DEF Order, Installing, Saved
<1>4. (\A i : ShippedText(i)' = ShippedText(i)) /\ Wanted' = Wanted /\ (Hooked' <=> Hooked)
  BY <1>1 DEF ShippedText, Hooked, Wanted, RetiredKeys, Present
<1>5. \A f \in OurFiles : ShippedText(f) # None => FileIn(f)'
  BY <1>1, <1>2, <1>3, <1>4 DEF SoFar, FileIn, Saved, Installing
<1>6. Hooked => \A e \in Event : GroupIn(e)'
  <2>. SUFFICES ASSUME Hooked, NEW e \in Event PROVE GroupIn(e)'
    OBVIOUS
  <2>1. /\ Settled(groups[e], prev.text[e], ShippedText(e), hook[e]) /\ hook[e].clash = FALSE
        /\ groups'[e] = hook[e].there \/ (groups'[e] = groups[e] /\ hook[e].there = groups[e])
        /\ next'.text[e] = hook[e].said
    BY <1>2, <1>3 DEF Saved
  <2>. QED
    BY <1>4, <2>1 DEF GroupIn, Settled
<1>7. harness = "hermes" => \A k \in Wanted : keys'[k] # None \/ block'[k] # None
  BY <1>1, <1>3 DEF SoFar
<1>8. step' # "register" /\ (step' = "manifest" => harness # "opencode")
  OBVIOUS
<1>. QED
  BY <1>1, <1>3, <1>4, <1>5, <1>6, <1>7, <1>8 DEF SoFar

LEMMA InstallKeepsSoFar ==
  ASSUME HarnessAssumption, HarnessType, Order, SoFar, Install
  PROVE  SoFar'
<1>. USE DEF Go
<1>1. CASE InstallStart
  <2>1. step' = "files" /\ edition' = edition /\ harness' = harness
        /\ \A f \in OurFiles : ShippedText(f) # None => f \in todo'
    BY <1>1 DEF InstallStart
  <2>2. \A f \in OurFiles : ShippedText(f)' = ShippedText(f)
    BY <2>1 DEF ShippedText, Hooked
  <2>. QED
    BY <2>1, <2>2 DEF SoFar
<1>2. CASE WireBlock
  <2>. SUFFICES ASSUME quiet', ~conflict' PROVE SoFar'
    BY DEF SoFar
  <2>1. /\ UNCHANGED <<harness, edition, disk, groups, plugin, manifest, prev, copy, todo, env,
                       conflict, theirs, quiet, crashed, raced, edits>>
        /\ harness = "hermes" /\ todo = {} /\ step = "files" /\ step' = "block"
    BY <1>2 DEF WireBlock
  <2>k. PICK kept : kept = RetireEnvHermes
    OBVIOUS
  <2>o. PICK outside : outside = [k \in Key |-> IF kept[k] # None THEN None ELSE keys[k]]
    OBVIOUS
  <2>n. PICK new : new = {k \in Wanted : outside[k] = None /\ kept[k] # env[k]}
    OBVIOUS
  <2>m. PICK match : match = {k \in Wanted \ new : outside[k] \in {None, env[k]}}
    OBVIOUS
  <2>2. /\ block' = [k \in Key |-> IF k \in new THEN env[k] ELSE kept[k]]
        /\ keys' = IF new = {} THEN keys ELSE outside
        /\ next' = [next EXCEPT !.keys = (new \cup (match \cap prev.keys) \cup Present(block'))
                                            \ RetiredKeys]
    BY <1>2, <2>k, <2>o, <2>n, <2>m DEF WireBlock
  <2>3. next'.text = next.text
    BY <2>2 DEF HarnessType, Manifests
  <2>4. (\A i : ShippedText(i)' = ShippedText(i)) /\ Wanted' = Wanted
    BY <2>1 DEF ShippedText, Hooked, Wanted, RetiredKeys, Present
  <2>5. \A k \in Wanted : k \in Key /\ env[k] # None
    BY DEF Wanted, Present
  <2>6. \A k \in Wanted : keys'[k] # None \/ block'[k] # None
    <3>. SUFFICES ASSUME NEW k \in Wanted PROVE keys'[k] # None \/ block'[k] # None
      OBVIOUS
    <3>1. CASE k \in new
      BY <2>2, <2>5, <3>1
    <3>2. CASE k \notin new
      <4>1. block'[k] = kept[k] /\ (kept[k] = env[k] \/ outside[k] # None)
        BY <2>2, <2>5, <2>n, <3>2
      <4>2. outside[k] # None => keys'[k] # None
        BY <2>2, <2>5, <2>o
      <4>. QED
        BY <2>5, <4>1, <4>2
    <3>. QED
      BY <3>1, <3>2
  <2>. QED
    BY <2>1, <2>3, <2>4, <2>6 DEF SoFar, FileIn, Installing
<1>3. CASE LoadSettings
  <2>1. /\ UNCHANGED <<harness, edition, places, manifest, prev, next, todo, env, conflict, past>>
        /\ todo = {} /\ step' = "save"
        /\ IF harness = "hermes" THEN step = "block" ELSE step = "files"
    BY <1>3 DEF LoadSettings
  <2>2. (\A i : ShippedText(i)' = ShippedText(i)) /\ Wanted' = Wanted
    BY <2>1 DEF ShippedText, Hooked, Wanted, RetiredKeys, Present
  <2>. QED
    BY <2>1, <2>2 DEF SoFar, FileIn, Installing, places, past
<1>5. CASE SaveClaude \/ SaveOpencode
  <2>1. PICK loaded : loaded = RetireEnvClaude(copy.keys)
    OBVIOUS
  <2>2. PICK new : new = WireEnvClaude(loaded)
    OBVIOUS
  <2>3. /\ Save(new, Managed(loaded), Owned(loaded, new), TRUE)
        /\ step = "save" /\ harness \in {"claude", "opencode"}
        /\ step' \in {"plugin", "manifest"} /\ (step' = "plugin" <=> harness = "opencode")
    BY <1>5, <2>1, <2>2 DEF SaveClaude, SaveOpencode, RetireConfigOpencode, WireEnvOpencode
  <2>4. Managed(loaded) \in SUBSET Key /\ Owned(loaded, new) \in SUBSET Key
    BY DEF Managed, Owned
  <2>5. \A k \in Wanted : new[k] # None
    BY <2>2 DEF WireEnvClaude, Wanted, Present
  <2>. QED
    BY <2>3, <2>4, <2>5, SaveKeepsSoFar
<1>6. CASE SaveHooks
  <2>1. /\ Save(keys, next.keys, ours \cap Key, FALSE)
        /\ step = "save" /\ step' = "manifest" /\ harness \in {"codex", "agy", "hermes"}
    BY <1>6 DEF SaveHooks
  <2>2. next.keys \in SUBSET Key /\ ours \cap Key \in SUBSET Key
    BY DEF HarnessType, Manifests
  <2>. QED
    BY <2>1, <2>2, SaveKeepsSoFar
<1>7. CASE InstallPlugin \/ WirePlugin
  <2>1. /\ next'.text = next.text
        /\ UNCHANGED <<harness, edition, disk, groups, keys, block, env, todo, conflict, quiet>>
    BY <1>7 DEF InstallPlugin, WirePlugin, HarnessType, Manifests, past
  <2>2. (\A i : ShippedText(i)' = ShippedText(i)) /\ Wanted' = Wanted /\ (Hooked' <=> Hooked)
    BY <2>1 DEF ShippedText, Hooked, Wanted, RetiredKeys, Present
  <2>3. CASE InstallPlugin
    <3>1. step = "plugin" /\ step' = "register" /\ plugin'.files = edition
      BY <2>3 DEF InstallPlugin, HarnessType
    <3>. QED
      BY <2>1, <2>2, <3>1 DEF SoFar, FileIn, GroupIn, Installing
  <2>4. CASE WirePlugin
    <3>1. step = "register" /\ step' = "manifest" /\ harness = "opencode"
          /\ plugin' = [files |-> plugin.files, entry |-> TRUE]
      BY <2>4 DEF WirePlugin, HarnessType, Order
    <3>. QED
      BY <2>1, <2>2, <3>1 DEF SoFar, FileIn, GroupIn, Installing
  <2>. QED
    BY <1>7, <2>3, <2>4
<1>9. CASE WriteManifest
  BY <1>9 DEF WriteManifest, SoFar, Installing
<1>10. ASSUME NEW f \in OurFiles, InstallSkill(f) \/ InstallAgent(f) \/ KeepOrphan(f)
       PROVE  SoFar'
  BY <1>10, FileKeepsSoFar DEF InstallSkill, InstallAgent
<1>. QED
  BY <1>1, <1>2, <1>3, <1>5, <1>6, <1>7, <1>9, <1>10 DEF Install

LEMMA SoFarStep ==
  ASSUME HarnessAssumption, HarnessType, Order, SoFar, [HarnessNext]_harnessVars
  PROVE  SoFar'
<1>1. CASE UNCHANGED harnessVars
  <2>1. (\A i : ShippedText(i)' = ShippedText(i)) /\ Wanted' = Wanted /\ (Hooked' <=> Hooked)
    BY <1>1 DEF harnessVars, held, ShippedText, Hooked, Wanted, RetiredKeys, Present
  <2>. QED
    BY <1>1, <2>1 DEF harnessVars, places, held, past, SoFar, FileIn, GroupIn
<1>2. CASE Upgrade \/ BreaksOff
  <2>1. step' = "idle"
    BY <1>2 DEF Upgrade, BreaksOff, Running
  <2>. QED
    BY <2>1 DEF SoFar, Installing
<1>3. CASE User
  <2>1. PICK i : UserEdits(i)
    BY <1>3 DEF User, UserFile, UserGroup, UserKey, UserPlugin
  <2>2. step' = step /\ (quiet' => step = "idle")
    BY <2>1 DEF UserEdits, Running
  <2>. QED
    BY <2>2 DEF SoFar, Installing
<1>4. CASE Uninstall
  <2>1. step' \notin Installing
    BY <1>4 DEF Uninstall, UninstallStart, UninstallLoad, UnwireClaude, UnwireOpencode, UnwireHooks,
                RemoveBlock, UnregisterPlugin, RemovePlugin, UninstallManifest, RemoveFile, Go, Installing
  <2>2. step' \notin {"block", "save", "plugin", "register", "manifest"}
    BY <2>1 DEF Installing
  <2>. QED
    BY <2>1, <2>2 DEF SoFar
<1>. QED
  BY <1>1, <1>2, <1>3, <1>4, InstallKeepsSoFar DEF HarnessNext

(* Theorem: what a run that nobody disturbed and that met no conflict      *)
(* reports as installed is in place and on record, for any release.        *)
THEOREM InstalledStands == HarnessSpec => []InstalledMeansInstalled
<1>1. HarnessInit => HarnessType /\ Order /\ SoFar
  BY HarnessAssumption, HarnessTypeInit, OrderInit, SoFarInit
<1>2. HarnessType /\ Order /\ SoFar /\ [HarnessNext]_harnessVars => (HarnessType /\ Order /\ SoFar)'
  BY HarnessAssumption, HarnessTypeStep, OrderStep, SoFarStep
<1>3. HarnessType /\ Order /\ SoFar => InstalledMeansInstalled
  <2>. SUFFICES ASSUME Order, SoFar, step = "manifest", quiet, ~conflict
                PROVE  InstalledMeansInstalled
    BY DEF InstalledMeansInstalled
  <2>1. todo = {}
    BY DEF Order, Installing
  <2>. QED
    BY <2>1 DEF SoFar, FileIn, GroupIn, Installing, InstalledMeansInstalled
<1>. QED
  BY <1>1, <1>2, <1>3, PTL DEF HarnessSpec
=============================================================================
