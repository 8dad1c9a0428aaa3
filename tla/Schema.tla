------------------------------- MODULE Schema -------------------------------
(* The effect of each migration file of schema/ on the database, in the    *)
(* files' order.  A file is one transaction, so an effect is four sets:    *)
(*   needs    relations it names without IF EXISTS: missing, it raises     *)
(*   drops    relations it removes, IF EXISTS                              *)
(*   creates  relations and columns it makes when they are absent          *)
(*   defines  the objects, among those that several files define, that it  *)
(*            replaces with its own version (OR REPLACE, DROP and ADD, DO  *)
(*            UPDATE)                                                      *)
(* Indexes, NOTIFY triggers and seed rows that one file alone defines are  *)
(* left out: running their file again gives them back as they were.        *)
EXTENDS Naturals, Sequences

Ready     == "work_items_ready_v"
Claimable == "work_items_claimable_v"
Deferred  == "wi_status deferred"
Legacy    == {"breadcrumbs", "bc_sequences", "allocate_bc_identifier"}
Tracking  == "schema_migrations"

File(needs, drops, creates, defines) ==
  [needs |-> needs, drops |-> drops, creates |-> creates, defines |-> defines]

Core000 ==
  File({}, {},
       {"workspaces", "projects", "vocabularies", "links", "change_log"}, {})

Breadcrumbs100 == File({"projects", "vocabularies"}, {}, Legacy, {})

Memory200 ==
  File({"workspaces", "projects", "vocabularies"}, {}, {"memories"}, {})

(* The only columns it drops are ones no released file creates; the tables *)
(* themselves must be there.                                               *)
DropProjection500 == File({"breadcrumbs", "projects"}, {}, {}, {})

Tracking600 == File({}, {}, {Tracking}, {})

KernelTables ==
  {"content_blobs", "op_log", "work_item_sequences", "work_items", "op_log_events"}

(* The lifecycle it seeds calls a deferred item terminal. *)
Kernel700 ==
  File({"workspaces", "projects", "vocabularies", "links"}, {},
       KernelTables \cup {Ready, Claimable}, {Ready, Claimable, Deferred})

CrossProjectTables ==
  {"projects.registry", "cross_project_links", "cross_project_ops",
   "cross_project_freshness", "cross_project_work_items"}

CrossProject701 ==
  File({"projects", "work_items", "links", "op_log_events"}, {},
       CrossProjectTables, {Ready, Claimable})

Leases702 ==
  File({"work_items", Ready}, {}, {"work_item_leases"}, {Claimable})

Search750 ==
  File({"work_items", "projects", "content_blobs", "memories"}, {},
       {"all_notes_search_v"}, {})

DropBreadcrumbs800 == File({}, Legacy, {}, {})

Regista810 == File({"work_items"}, {}, {"work_items.regista"}, {})

Lifecycle820 == File({"work_items", "vocabularies"}, {}, {}, {Deferred})

NoteEntity830 == File({"memories"}, {}, {"memories.regista"}, {})

Delegation840 ==
  File({"projects", "content_blobs"}, {}, {"review_delegation_attempts"}, {})

ProjectsKind850 == File({"projects"}, {}, {"projects.kind"}, {})

Messaging851 ==
  File({"workspaces", "projects"}, {}, {"agent_sessions", "agent_messages"}, {})

Checkouts852 == File({"projects"}, {}, {"project_checkouts"}, {})

MessageShape853 == File({"agent_messages"}, {}, {"agent_messages.shape"}, {})

AutoContinue854 ==
  File({"agent_sessions"}, {}, {"agent_sessions.auto_continue_at"}, {})

Independence860 ==
  File({"agent_sessions", "review_delegation_attempts"}, {},
       {"agent_sessions.model", "review_delegation_attempts.item_lamport",
        "model_lineages"}, {})

ReadyBlockers861 ==
  File({"work_items", "projects", "links", "vocabularies",
        "cross_project_links", "cross_project_work_items"}, {}, {}, {Ready})

SqlFiles ==
  << Core000, Breadcrumbs100, Memory200, DropProjection500, Tracking600,
     Kernel700, CrossProject701, Leases702, Search750, DropBreadcrumbs800,
     Regista810, Lifecycle820, NoteEntity830, Delegation840, ProjectsKind850,
     Messaging851, Checkouts852, MessageShape853, AutoContinue854,
     Independence860, ReadyBlockers861 >>
=============================================================================
