------------------------------ MODULE Curation ------------------------------
(* Notices about a project's memories (core/memory_curation.py).  A run    *)
(* posts what a hygiene report found, retires the notices that the new one *)
(* replaces, and at last those of projects whose findings are gone; each   *)
(* of these is read and written in transactions of its own.                *)
EXTENDS Naturals, Sequences, FiniteSets

CONSTANTS
  Home,        \* the projects that are curated
  Digest,      \* what a report may find in a project, by digest_of
  Clean,       \* it finds nothing
  Skipped,     \* a project is not in the report, or dealt with
  Runner,      \* runs at a time
  MaxNotices,  \* bound: notices posted
  MaxDeaths    \* bound: runs that die

ASSUME CurationAssumption ==
  Clean \notin Digest /\ Skipped \notin Digest \cup {Clean} /\ MaxNotices \in Nat /\ MaxDeaths \in Nat

VARIABLES
  notices, \* [Home -> sequence of [digest, retired, expired]]
  runner,  \* [Runner -> where it is]
  clean,   \* history: up to which notice a finished run saw a project clean
  deaths

curationVars == <<notices, runner, clean, deaths>>

Resting == [at |-> "idle", now |-> Skipped, report |-> [p \in Home |-> Skipped], older |-> {},
            stale |-> [p \in Home |-> {}], upto |-> [p \in Home |-> 0]]

CurationInit ==
  /\ notices = [p \in Home |-> <<>>]
  /\ runner = [r \in Runner |-> Resting]
  /\ clean = [p \in Home |-> 0]
  /\ deaths = 0

Last(p) == notices[p][Len(notices[p])]

LiveNotices(p) == {n \in DOMAIN notices[p] : ~notices[p][n].retired /\ ~notices[p][n].expired}

(* What a new notice replaces. *)
Replaced(p) == LiveNotices(p)

(* Mutant: what has expired needs no retiring. *)
ClearableLive(p) == LiveNotices(p)

(* The live ones, and the latest one even when it has expired. *)
Clearable(p) ==
  LiveNotices(p) \cup {n \in DOMAIN notices[p] : n = Len(notices[p]) /\ ~notices[p][n].retired}

Retired(seq, ns) == [n \in DOMAIN seq |-> IF n \in ns THEN [seq[n] EXCEPT !.retired = TRUE] ELSE seq[n]]

(* _is_current: the same findings, not cleared since, however old. *)
IsCurrent(p, digest) ==
  notices[p] # <<>> /\ Last(p).digest = digest /\ ~Last(p).retired
-----------------------------------------------------------------------------
Expires(p) ==
  /\ \E n \in LiveNotices(p) : notices' = [notices EXCEPT ![p][n].expired = TRUE]
  /\ UNCHANGED <<runner, clean, deaths>>

(* The report is made before post_curation_notices is called, so it may be *)
(* of any age; scope is one project, or all of them.                       *)
Report(r, scope) ==
  /\ runner[r].at = "idle"
  /\ \E found \in [scope -> Digest \cup {Clean}] :
       runner' = [runner EXCEPT ![r] = [Resting EXCEPT
         !.at = "judge", !.report = [p \in Home |-> IF p \in scope THEN found[p] ELSE Skipped]]]
  /\ UNCHANGED <<notices, clean, deaths>>

Judge(r, p) ==
  /\ runner[r].at = "judge" /\ runner[r].report[p] \in Digest
  /\ runner' = [runner EXCEPT ![r] = IF IsCurrent(p, @.report[p]) THEN [@ EXCEPT !.report[p] = Skipped]
                                     ELSE [@ EXCEPT !.at = "list", !.now = p]]
  /\ UNCHANGED <<notices, clean, deaths>>

List(r, p) ==
  /\ runner[r].at = "list" /\ runner[r].now = p
  /\ runner' = [runner EXCEPT ![r].at = "post", ![r].older = Replaced(p)]
  /\ UNCHANGED <<notices, clean, deaths>>

(* send_message commits. *)
Post(r, p) ==
  /\ runner[r].at = "post" /\ runner[r].now = p /\ Cardinality(UNION {{q} \X DOMAIN notices[q] : q \in Home}) < MaxNotices
  /\ notices' = [notices EXCEPT ![p] = Append(@, [digest |-> runner[r].report[p], retired |-> FALSE,
                                                  expired |-> FALSE])]
  /\ runner' = [runner EXCEPT ![r].at = "retire", ![r].report[p] = Skipped]
  /\ UNCHANGED <<clean, deaths>>

Retire(r, p) ==
  /\ runner[r].at = "retire" /\ runner[r].now = p
  /\ notices' = [notices EXCEPT ![p] = Retired(@, runner[r].older)]
  /\ runner' = [runner EXCEPT ![r].at = "judge", ![r].now = Skipped, ![r].older = {}]
  /\ UNCHANGED <<clean, deaths>>

(* At last, what the projects without findings have. *)
Sweep(r) ==
  LET clear == {p \in Home : runner[r].report[p] = Clean}
  IN /\ runner[r].at = "judge" /\ \A p \in Home : runner[r].report[p] \notin Digest
     /\ runner' = [runner EXCEPT ![r] = [Resting EXCEPT
          !.at = "sweep",
          !.stale = [p \in Home |-> IF p \in clear THEN Clearable(p) ELSE {}],
          !.upto = [p \in Home |-> IF p \in clear THEN Len(notices[p]) ELSE 0]]]
     /\ UNCHANGED <<notices, clean, deaths>>

RetireStale(r) ==
  /\ runner[r].at = "sweep"
  /\ notices' = [p \in Home |-> Retired(notices[p], runner[r].stale[p])]
  /\ clean' = [p \in Home |-> IF runner[r].upto[p] > clean[p] THEN runner[r].upto[p] ELSE clean[p]]
  /\ runner' = [runner EXCEPT ![r] = Resting]
  /\ UNCHANGED <<deaths>>

RunDies(r) ==
  /\ runner[r].at # "idle" /\ deaths < MaxDeaths
  /\ deaths' = deaths + 1
  /\ runner' = [runner EXCEPT ![r] = Resting]
  /\ UNCHANGED <<notices, clean>>

CurationNext ==
  \/ \E p \in Home : Expires(p)
  \/ \E r \in Runner :
       \/ \E scope \in {Home} \cup {{p} : p \in Home} : Report(r, scope)
       \/ \E p \in Home : Judge(r, p) \/ List(r, p) \/ Post(r, p) \/ Retire(r, p)
       \/ Sweep(r) \/ RetireStale(r) \/ RunDies(r)

CurationSpec == CurationInit /\ [][CurationNext]_curationVars
-----------------------------------------------------------------------------
(* Once a run has found a project clean, its latest notice of then does    *)
(* not pass for current: the same findings will be posted when they recur. *)
RecurrenceIsPosted ==
  \A p \in Home : clean[p] > 0 => notices[p][clean[p]].retired
=============================================================================
