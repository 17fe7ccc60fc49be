--------------------------- MODULE CampaignWatch ----------------------------
(***************************************************************************)
(* scripts/ardx/campaign_watch.py: watchers turn the state files of        *)
(* campaigns into a stream of printed events and fire the postrun hook     *)
(* when a campaign has ended.  What a watcher has reported it keeps in a   *)
(* cursor file, which a service (--follow, restarted by systemd) and       *)
(* `--once` invocations share without a lock.                              *)
(*                                                                         *)
(* The campaigns move as CampaignDag allows.  Left out: hand-run bundles,  *)
(* the details of an event, the failure class (it is fixed with the end of *)
(* the campaign).                                                          *)
(***************************************************************************)
EXTENDS Naturals, FiniteSets

CONSTANTS
  Campaigns, Jobs, CampaignOf, Deps, MaxAttempts,
  Services,      \* watchers run with --follow and --on-event by systemd
  Manual,        \* watchers run with --once and no hook
  EmitExisting,  \* watchers run with --emit-existing
  Outcomes,      \* bound: the statuses in which jobs end
  MaxManual,     \* bound: invocations of each manual watcher
  MaxMishaps     \* bound: interrupted watchers, unreadable files, lost cursors

VARIABLES
  st, n,         \* the state files of the campaigns (see CampaignDag)
  exists,        \* campaigns whose state file exists
  cursor,        \* what the cursor file says of each job
  pc, mem, loud, todo, out,  \* each watcher: its cursor, emit_first_seen, its pass
  starts,        \* how often each watcher was started
  told,          \* events printed, or recorded in silence by a cold start
  hooks,         \* how often the hook was fired for each campaign
  mishaps

Dag == INSTANCE CampaignDag

Watchers == Services \cup Manual
JobsOf(c) == {j \in Jobs : CampaignOf[j] = c}

ASSUME WatchAssumption ==
  /\ CampaignOf \in [Jobs -> Campaigns]
  /\ \A c \in Campaigns : JobsOf(c) # {}
  /\ Campaigns \cap Jobs = {} /\ Services \cap Manual = {} /\ IsFiniteSet(Services)
  /\ EmitExisting \subseteq Watchers /\ Outcomes \subseteq {"completed", "failed", "blocked", "orphaned"}
  /\ MaxManual \in Nat /\ MaxMishaps \in Nat

campaignVars == <<st, n, exists>>
watcherVars == <<pc, mem, loud, todo, out, starts>>
streamVars == <<told, hooks>>
vars == <<campaignVars, cursor, watcherVars, streamVars, mishaps>>

\* A cursor that is absent, unreadable or empty says nothing.
Nothing == [j \in Jobs |-> "unseen"]

Init ==
  /\ Dag!Init
  /\ exists = {}
  /\ cursor = Nothing
  /\ pc = [w \in Watchers |-> "down"]
  /\ mem = [w \in Watchers |-> Nothing]
  /\ loud = [w \in Watchers |-> FALSE]
  /\ todo = [w \in Watchers |-> {}]
  /\ out = [w \in Watchers |-> {}]
  /\ starts = [w \in Watchers |-> 0]
  /\ told = {}
  /\ hooks = [c \in Campaigns |-> 0]
  /\ mishaps = 0

-----------------------------------------------------------------------------
(* The campaigns                                                           *)

Register(c) ==
  /\ c \notin exists
  /\ exists' = exists \cup {c}
  /\ UNCHANGED <<st, n, cursor, watcherVars, streamVars, mishaps>>

\* A controller saves the state of c: a move of CampaignDag, in which only the
\* jobs of c change, and only running ones have a new attempt.
Advance(c) ==
  /\ c \in exists
  /\ \E s \in [JobsOf(c) -> {"pending", "running"} \cup Outcomes] :
       /\ st' = [j \in Jobs |-> IF CampaignOf[j] = c THEN s[j] ELSE st[j]]
       /\ \E L \in SUBSET {j \in JobsOf(c) : s[j] = "running"} :
            n' = [j \in Jobs |-> IF j \in L THEN n[j] + 1 ELSE n[j]]
  /\ st' # st
  /\ Dag!Next
  /\ UNCHANGED <<exists, cursor, watcherVars, streamVars, mishaps>>

\* classify_campaign.
Summary(view, c) ==
  IF \A j \in JobsOf(c) : view[j] \in Dag!Terminal
  THEN IF \A j \in JobsOf(c) : view[j] = "completed" THEN "completed" ELSE "failed"
  ELSE IF \E j \in JobsOf(c) : view[j] = "running" THEN "running" ELSE "pending"

Ended(view, c) == Summary(view, c) \in {"completed", "failed"}

-----------------------------------------------------------------------------
(* The watchers                                                            *)

\* load_cursor; with an empty cursor the start is cold.
Start(w) ==
  /\ pc[w] = "down"
  /\ w \in Manual => starts[w] < MaxManual
  /\ starts' = [starts EXCEPT ![w] = @ + 1]
  /\ mem' = [mem EXCEPT ![w] = cursor]
  /\ loud' = [loud EXCEPT ![w] = w \in EmitExisting \/ cursor # Nothing]
  /\ pc' = [pc EXCEPT ![w] = "idle"]
  /\ UNCHANGED <<campaignVars, cursor, todo, out, streamVars, mishaps>>

\* scan_once: find_campaign_states
Glob(w) ==
  /\ pc[w] = "idle"
  /\ pc' = [pc EXCEPT ![w] = "scan"]
  /\ todo' = [todo EXCEPT ![w] = exists]
  /\ UNCHANGED <<campaignVars, cursor, mem, loud, out, starts, streamVars, mishaps>>

Fresh(w, c) == \A j \in JobsOf(c) : mem[w][j] = "unseen"

\* The events of a snapshot of c: its changed jobs, and the campaign itself
\* when its summary has changed.
ChangedAtFirst(w, c) == Fresh(w, c)  \* Mutant: later ends are not noticed
Changed(w, c) == Fresh(w, c) \/ Summary(mem[w], c) # Summary(st, c)
EventsOf(c, js, cs) == {<<j, st[j]>> : j \in js} \cup {<<d, Summary(st, d)>> : d \in cs}
NewEvents(w, c) ==
  EventsOf(c, {j \in JobsOf(c) : mem[w][j] # st[j]}, {d \in {c} : Changed(w, d)})

\* The cursor after a scan of c.  Mutant: the snapshot is not kept.
SnapshotDropped(w, c) == mem[w]
Snapshot(w, c) == [j \in Jobs |-> IF CampaignOf[j] = c THEN st[j] ELSE mem[w][j]]

\* scan_campaign; the sources are named by the user and come in any order.
Scan(w, c) ==
  /\ pc[w] = "scan" /\ c \in todo[w]
  /\ \/ /\ Fresh(w, c) /\ ~loud[w]
        /\ told' = told \cup NewEvents(w, c)
        /\ UNCHANGED out
     \/ /\ ~Fresh(w, c) \/ loud[w]
        /\ out' = [out EXCEPT ![w] = @ \cup NewEvents(w, c)]
        /\ UNCHANGED told
  /\ mem' = [mem EXCEPT ![w] = Snapshot(w, c)]
  /\ todo' = [todo EXCEPT ![w] = @ \ {c}]
  /\ UNCHANGED <<campaignVars, cursor, pc, loud, starts, hooks, mishaps>>

\* The state file cannot be read: the previous snapshot stays.
Unreadable(w, c) ==
  /\ pc[w] = "scan" /\ c \in todo[w] /\ mishaps < MaxMishaps
  /\ todo' = [todo EXCEPT ![w] = @ \ {c}]
  /\ mishaps' = mishaps + 1
  /\ UNCHANGED <<campaignVars, cursor, pc, mem, loud, out, starts, streamVars>>

\* The events a pass may print next: a campaign comes after its jobs.
AnyOrder(w) == out[w]  \* Mutant
Printable(w) ==
  {e \in out[w] : e[1] \in Campaigns => \A f \in out[w] : f[1] \notin JobsOf(e[1])}

\* print and fire_hook, which only --on-event arms; the hook is not waited for.
Emit(w, e) ==
  /\ pc[w] = "scan" /\ todo[w] = {} /\ e \in Printable(w)
  /\ told' = told \cup {e}
  /\ out' = [out EXCEPT ![w] = @ \ {e}]
  /\ hooks' = [c \in Campaigns |->
       IF w \in Services /\ c = e[1] /\ e[2] \in Dag!Terminal THEN hooks[c] + 1 ELSE hooks[c]]
  /\ UNCHANGED <<campaignVars, cursor, pc, mem, loud, todo, starts, mishaps>>

\* The process is gone, and its memory with it.
Ends(w) ==
  /\ pc' = [pc EXCEPT ![w] = "down"]
  /\ mem' = [mem EXCEPT ![w] = Nothing]
  /\ loud' = [loud EXCEPT ![w] = FALSE]

Save(w) ==
  /\ pc[w] = "scan" /\ todo[w] = {} /\ out[w] = {}
  /\ cursor' = mem[w]
  /\ \/ /\ w \in Services
        /\ pc' = [pc EXCEPT ![w] = "idle"]
        /\ loud' = [loud EXCEPT ![w] = TRUE]
        /\ UNCHANGED mem
     \/ /\ w \in Manual /\ Ends(w)
  /\ UNCHANGED <<campaignVars, todo, out, starts, streamVars, mishaps>>

\* What an interrupted watcher leaves in the cursor file.
CursorOfPass(w) == mem[w]  \* Mutant: the pass that was cut short
CursorKept(w) == cursor

\* A watcher is killed, or the reader of its output goes away.
Interrupt(w) ==
  /\ pc[w] # "down" /\ mishaps < MaxMishaps
  /\ mishaps' = mishaps + 1
  /\ cursor' = CursorKept(w)
  /\ Ends(w)
  /\ todo' = [todo EXCEPT ![w] = {}]
  /\ out' = [out EXCEPT ![w] = {}]
  /\ UNCHANGED <<campaignVars, starts, streamVars>>

\* The cursor is removed, or cannot be parsed.
LoseCursor ==
  /\ cursor # Nothing /\ mishaps < MaxMishaps
  /\ mishaps' = mishaps + 1
  /\ cursor' = Nothing
  /\ UNCHANGED <<campaignVars, watcherVars, streamVars>>

WatcherStep(w) ==
  \/ Start(w) \/ Glob(w) \/ Save(w)
  \/ \E c \in Campaigns : Scan(w, c)
  \/ \E e \in out[w] : Emit(w, e)

Next ==
  \/ \E c \in Campaigns : Register(c) \/ Advance(c)
  \/ \E w \in Watchers :
       WatcherStep(w) \/ Interrupt(w) \/ \E c \in Campaigns : Unreadable(w, c)
  \/ LoseCursor

Spec == Init /\ [][Next]_vars

\* systemd restarts the service (Restart=always), and it keeps scanning.
\* Nobody has to start a campaign, let it advance, or invoke a watcher.
FairSpec == Spec /\ \A w \in Services : WF_vars(WatcherStep(w))

-----------------------------------------------------------------------------
(* Properties                                                              *)

Views == [Jobs -> Dag!Status \cup {"unseen"}]
Events == (Jobs \X Dag!Status) \cup (Campaigns \X {"pending", "running", "completed", "failed"})

\* Every variable has its shape.
TypeOK ==
  /\ Dag!TypeOK
  /\ exists \subseteq Campaigns
  /\ cursor \in Views
  /\ pc \in [Watchers -> {"down", "idle", "scan"}]
  /\ mem \in [Watchers -> Views]
  /\ loud \in [Watchers -> BOOLEAN]
  /\ todo \in [Watchers -> SUBSET Campaigns]
  /\ out \in [Watchers -> SUBSET Events]
  /\ starts \in [Watchers -> Nat]
  /\ told \subseteq Events
  /\ hooks \in [Campaigns -> Nat]
  /\ mishaps \in 0..MaxMishaps

\* At least once: whatever the cursor file says has been seen of a job was
\* printed, or recorded by a cold start, also when watchers share the cursor
\* and are interrupted (main saves the cursor after the events).
CursorIsBacked ==
  \A j \in Jobs : cursor[j] # "unseen" => <<j, cursor[j]>> \in told

\* When the hook is fired for a campaign, the end of every one of its jobs has
\* been told, and stays what it was.
HookAfterJobs ==
  \A c \in Campaigns : hooks[c] > 0 =>
    \A j \in JobsOf(c) : st[j] \in Dag!Terminal /\ <<j, st[j]>> \in told

\* A life of a service fires the hook of a campaign at most once.
Lives == UNION {{w} \X (1..starts[w]) : w \in Services}
HookBudget == \A c \in Campaigns : hooks[c] <= Cardinality(Lives)

\* The end of a campaign is told, whoever was interrupted or scanned beside.
EndIsTold ==
  \A c \in Campaigns : c \in exists /\ Ended(st, c) ~> <<c, Summary(st, c)>> \in told
=============================================================================
