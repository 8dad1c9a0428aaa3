----------------------------- MODULE TriggerLoop -----------------------------
(* A work item that others depend on, the links to it (cross_project_links *)
(* and their mirror in links), the events its commands emit and the        *)
(* trigger loop: it listens for events, looks up whom they concern, keeps  *)
(* the wakes in a buffer and posts them to the wake channels.  The loop    *)
(* may die, the channels may be down, and PostgreSQL keeps nothing for a   *)
(* process that does not listen.                                           *)
EXTENDS Naturals, Sequences, FiniteSets

CONSTANTS
  Dep,       \* items that may depend on ours, in any project
  Home,      \* our item's own project
  NoTarget,  \* no channel: the column is NULL, the variable is not set
  Channel,   \* [Dep \cup {Home} -> wake_channel of the project, or NoTarget]
  Default,   \* AGENT_NOTES_BRIDGE_TARGET, or NoTarget
  BatchN,    \* AGENT_NOTES_BRIDGE_BATCH_N
  Crossing,  \* bound: dependents that `wi link-cross` and `wi wait` are called for
  MaxEvents, \* bound: events emitted
  MaxDeaths  \* bound: deaths of the loop

ASSUME TriggerLoopBounds ==
  /\ BatchN \in Nat \ {0} /\ MaxEvents \in Nat /\ MaxDeaths \in Nat
  /\ Home \notin Dep /\ Crossing \subseteq Dep

VARIABLES
  item,      \* the row of our item: "live", "done" or "deleted"
  edges,     \* dependents in cross_project_links
  mirror,    \* dependents in links: mirrors of edges, or added there
  linking,   \* [Dep -> how far its link command is]
  events,    \* op_log_events
  queue,     \* notifications for the loop
  loop,      \* "down", "listening", "posting"
  buffer,    \* wakes to post
  deaths,    \* of the loop
  delivered, \* what the channels got: a set of posts
  missed     \* history: <<event, dependent>> that a fault lost

triggerVars == <<item, edges, mirror, linking, events, queue, loop, buffer,
                 deaths, delivered, missed>>
table == <<item, edges, mirror, linking, events>>

TriggerInit ==
  /\ item = "live" /\ edges = {} /\ mirror = {} /\ linking = [d \in Dep |-> "no"]
  /\ events = <<>> /\ queue = <<>> /\ loop = "down" /\ buffer = {}
  /\ deaths = 0 /\ delivered = {} /\ missed = {}

Everyone == Dep \cup {Home}

(* The project's wake_channel or the loop's default.  No command sets a     *)
(* wake_channel: it stays what it is.                                      *)
Target(d) == IF Channel[d] # NoTarget THEN Channel[d] ELSE Default

(* The others are passed over in silence. *)
Reached == {d \in Everyone : Target(d) # NoTarget}

(* Whom an event that is lost would have woken is not known: it is missed  *)
(* for all.                                                                *)
Missing(ns) == ns \X Everyone

(* The trigger on op_log_events notifies, at the commit, whoever listens   *)
(* then.                                                                   *)
Notify(n) ==
  IF loop = "down"
    THEN missed' = missed \cup Missing({n}) /\ UNCHANGED queue
    ELSE queue' = Append(queue, n) /\ UNCHANGED missed

(* emit_event, in the transaction of its command. *)
Emit(type, dep) ==
  /\ Len(events) < MaxEvents
  /\ events' = Append(events, [type |-> type, dep |-> dep])
  /\ Notify(Len(events) + 1)
  /\ UNCHANGED <<loop, buffer, deaths, delivered>>
-----------------------------------------------------------------------------
(* add_cross_project_link: three transactions of one command.              *)
LinkEdge(d) ==
  /\ linking[d] = "no"
  /\ edges' = edges \cup {d}
  /\ linking' = [linking EXCEPT ![d] = "edge"]
  /\ UNCHANGED <<item, mirror, events, queue, loop, buffer, deaths, delivered, missed>>

LinkMirror(d) ==
  /\ linking[d] = "edge"
  /\ mirror' = mirror \cup {d}
  /\ linking' = [linking EXCEPT ![d] = "mirror"]
  /\ UNCHANGED <<item, edges, events, queue, loop, buffer, deaths, delivered, missed>>

LinkEvent(d) ==
  /\ linking[d] = "mirror"
  /\ linking' = [linking EXCEPT ![d] = "no"]
  /\ Emit("link", Home)
  /\ UNCHANGED <<item, edges, mirror>>

(* The command dies, or its next transaction fails. *)
LinkDies(d) ==
  /\ linking[d] # "no"
  /\ linking' = [linking EXCEPT ![d] = "no"]
  /\ UNCHANGED <<item, edges, mirror, events, queue, loop, buffer, deaths, delivered,
                 missed>>

(* link add: straight into links, with no event. *)
LinkAdd(d) ==
  /\ d \notin mirror
  /\ mirror' = mirror \cup {d}
  /\ UNCHANGED <<item, edges, linking, events, queue, loop, buffer, deaths, delivered,
                 missed>>

(* remove_link: the mirror alone.  Nothing removes the other edge. *)
Unlink(d) ==
  /\ d \in mirror
  /\ mirror' = mirror \ {d}
  /\ UNCHANGED <<item, edges, linking, events, queue, loop, buffer, deaths, delivered,
                 missed>>

Request == Emit("request", Home) /\ UNCHANGED <<item, edges, mirror, linking>>

(* A wait is an op and its event, no more. *)
Waiting == {d \in Dep : [type |-> "wait", dep |-> d] \in {events[i] : i \in DOMAIN events}}

Wait(d) ==
  /\ d \notin Waiting
  /\ Emit("wait", d)
  /\ UNCHANGED <<item, edges, mirror, linking>>

Close ==
  /\ item = "live"
  /\ item' = "done"
  /\ Emit("closed", Home)
  /\ UNCHANGED <<edges, mirror, linking>>

(* A status that update or the review commands set; deletion emits too.    *)
Update(state) ==
  /\ item \notin {state, "deleted"}
  /\ item' = state
  /\ Emit("changed", Home)
  /\ UNCHANGED <<edges, mirror, linking>>
-----------------------------------------------------------------------------
(* The loop.                                                               *)
Listen ==
  /\ loop = "down"
  /\ loop' = "listening"
  /\ UNCHANGED <<table, queue, buffer, deaths, delivered, missed>>

(* Mutant: links is not looked up. *)
DependentsForeign == IF item = "deleted" THEN {} ELSE {<<d, "cross">> : d \in edges}

(* _route_item_closed: a dependent in both tables is woken twice, and only *)
(* if the item is still there when the event is processed.                 *)
Dependents ==
  IF item = "deleted" THEN {}
  ELSE {<<d, "links">> : d \in mirror} \cup {<<d, "cross">> : d \in edges}

(* _process_event: a wake for each whom the event concerns and who has a    *)
(* target.                                                                 *)
Concerned(n) ==
  CASE events[n].type \in {"request", "link"} -> {<<Home, "event">>}
    [] events[n].type = "closed" -> Dependents
    [] OTHER -> {}

Route(n) ==
  {[event |-> n, for |-> p[1], via |-> p[2]] : p \in {q \in Concerned(n) : q[1] \in Reached}}

(* A buffer that fills up ends the iteration over the notifications, and   *)
(* those that came in the same packet may go with it.                      *)
Take ==
  /\ loop = "listening" /\ queue # <<>> /\ Cardinality(buffer) < BatchN
  /\ buffer' = buffer \cup Route(Head(queue))
  /\ \E k \in 1..Len(queue) :
       /\ Cardinality(buffer') < BatchN => k = 1
       /\ queue' = SubSeq(queue, k + 1, Len(queue))
       /\ missed' = missed \cup Missing({queue[i] : i \in 2..k})
  /\ UNCHANGED <<table, loop, deaths, delivered>>

(* The deadline of a buffer that holds anything passes. *)
Due == buffer # {}

Flush ==
  /\ loop = "listening" /\ Due
  /\ loop' = "posting"
  /\ UNCHANGED <<table, queue, buffer, deaths, delivered, missed>>

(* Mutant: one POST per wake. *)
GroupOfOne(w) == {w}

(* _flush: one POST with all there is for a channel. *)
Group(w) == {x \in buffer : Target(x.for) = Target(w.for)}

Posted(w) ==
  /\ loop = "posting" /\ w \in buffer
  /\ buffer' = buffer \ Group(w)
  /\ loop' = IF buffer' = {} THEN "listening" ELSE "posting"
  /\ UNCHANGED <<table, queue, deaths>>

Arrives(w) ==
  /\ Posted(w)
  /\ delivered' = delivered \cup {Group(w)}
  /\ UNCHANGED missed

(* Given up after four attempts; one may have been received. *)
Dropped(w) ==
  /\ Posted(w)
  /\ missed' = missed \cup {<<x.event, x.for>> : x \in Group(w)}
  /\ delivered' \in {delivered, delivered \cup {Group(w)}}

Dies ==
  /\ loop # "down" /\ deaths < MaxDeaths
  /\ loop' = "down"
  /\ deaths' = deaths + 1
  /\ missed' = missed \cup {<<x.event, x.for>> : x \in buffer}
                      \cup Missing({queue[i] : i \in DOMAIN queue})
  /\ queue' = <<>> /\ buffer' = {}
  /\ UNCHANGED <<table, delivered>>

LinkCrossCommand(d) == LinkEdge(d) \/ LinkMirror(d) \/ LinkEvent(d) \/ LinkDies(d)

Commands ==
  \/ \E d \in Crossing : LinkCrossCommand(d) \/ Wait(d)
  \/ \E d \in Dep : LinkAdd(d) \/ Unlink(d)
  \/ Request \/ Close
  \/ \E s \in {"live", "done", "deleted"} : Update(s)

TriggerNext ==
  \/ Commands \/ Listen \/ Take \/ Flush \/ Dies
  \/ \E w \in buffer : Arrives(w) \/ Dropped(w)

TriggerSpec == TriggerInit /\ [][TriggerNext]_triggerVars

(* The loop runs while it is up; nothing restarts it, and no command is    *)
(* bound to happen.                                                        *)
TriggerFairness ==
  /\ WF_triggerVars(Take) /\ WF_triggerVars(Flush)
  /\ WF_triggerVars(\E w \in buffer : Arrives(w) \/ Dropped(w))

TriggerFairSpec == TriggerSpec /\ TriggerFairness
-----------------------------------------------------------------------------
Woken(n, d) == \E p \in delivered : \E w \in p : w.event = n /\ w.for = d

(* Though it is found in two tables, a dependent hears of a closing in one *)
(* POST: both wakes are in the buffer before anything is posted.           *)
OnePostPerClosing ==
  \A p, q \in delivered : \A v \in p, w \in q :
    v.event = w.event /\ v.for = w.for => p = q

Pending(n) == \E i \in DOMAIN queue : queue[i] = n

Linked == edges \cup mirror

(* A dependent in either table that has a target, linked while the loop has *)
(* yet to hear that the item was closed, is woken, unless a fault loses it *)
(* (the loop dies, a channel stays down, a packet is more than the buffer  *)
(* holds), the item is deleted or the link is removed.  A dependent with   *)
(* neither a wake_channel nor a default target is never woken, and nothing *)
(* records it.                                                             *)
DependentsWoken ==
  \A n \in 1..MaxEvents : \A d \in Dep \cap Reached :
    (Pending(n) /\ events[n].type = "closed" /\ d \in Linked)
      ~> (Woken(n, d) \/ <<n, d>> \in missed \/ item = "deleted" \/ d \notin Linked)
=============================================================================
