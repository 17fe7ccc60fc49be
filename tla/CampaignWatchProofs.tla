------------------------ MODULE CampaignWatchProofs -------------------------
(***************************************************************************)
(* At-least-once delivery of the campaign watch, for any number of         *)
(* campaigns, services and manual invocations on one cursor file.          *)
(* CursorIsBacked is not inductive: what a watcher will save is in its     *)
(* memory, and the events that back it may still be unprinted (Backed).    *)
(* Then the postrun hook: it comes last, and once for each life of a       *)
(* service.                                                                *)
(***************************************************************************)
EXTENDS CampaignWatch, FiniteSetTheorems, TLAPS

Shape ==
  /\ st \in [Jobs -> Dag!Status]
  /\ cursor \in Views
  /\ mem \in [Watchers -> Views]
  /\ out \in [Watchers -> SUBSET Events]

\* What a watcher remembers of a job has been told, or is about to be.
Backed ==
  \A w \in Watchers, j \in Jobs :
    mem[w][j] # "unseen" => <<j, mem[w][j]>> \in told \cup out[w]

BackedInv == Shape /\ CursorIsBacked /\ Backed

LEMMA NothingIsView == Nothing \in Views
  BY DEF Nothing, Views

LEMMA SnapshotIsView ==
  ASSUME Shape, NEW w \in Watchers, NEW c \in Campaigns
  PROVE  Snapshot(w, c) \in Views
  BY DEF Shape, Snapshot, Views

LEMMA SummaryIsShort ==
  ASSUME NEW v, NEW c
  PROVE  Summary(v, c) \in {"pending", "running", "completed", "failed"}
  BY DEF Summary

LEMMA NewEventsAreEvents ==
  ASSUME Shape, NEW w \in Watchers, NEW c \in Campaigns
  PROVE  NewEvents(w, c) \subseteq Events
  BY SummaryIsShort DEF Shape, NewEvents, EventsOf, JobsOf, Events

\* A scan of c finds an event for every job of c whose status is new to w.
LEMMA NewStatusHasEvent ==
  ASSUME NEW w, NEW c, NEW j \in JobsOf(c), mem[w][j] # st[j]
  PROVE  <<j, st[j]>> \in NewEvents(w, c)
  BY DEF NewEvents, EventsOf

LEMMA BackedInit == Init => BackedInv
<1> SUFFICES ASSUME Init PROVE BackedInv
  OBVIOUS
<1>1. st \in [Jobs -> Dag!Status]
  BY DEF Init, Dag!Init, Dag!Status
<1>2. Shape
  BY <1>1, NothingIsView DEF Init, Shape
<1>3. CursorIsBacked /\ Backed
  BY DEF Init, CursorIsBacked, Backed, Nothing
<1> QED BY <1>2, <1>3 DEF BackedInv

LEMMA CampaignStep ==
  ASSUME BackedInv, NEW c \in Campaigns, Register(c) \/ Advance(c)
  PROVE  BackedInv'
<1>1. UNCHANGED <<cursor, mem, out, told>>
  BY DEF Register, Advance, watcherVars, streamVars
<1>2. st' \in [Jobs -> Dag!Status]
  BY DEF BackedInv, Shape, Register, Advance, Dag!Next
<1> QED BY <1>1, <1>2 DEF BackedInv, Shape, CursorIsBacked, Backed

LEMMA ScanStep ==
  ASSUME BackedInv, NEW w \in Watchers, NEW c \in Campaigns, Scan(w, c)
  PROVE  BackedInv'
<1>1. UNCHANGED <<st, cursor>> /\ mem' = [mem EXCEPT ![w] = Snapshot(w, c)]
  BY DEF Scan, campaignVars
<1>2. /\ out' \in [Watchers -> SUBSET Events]
      /\ told \subseteq told'
      /\ \A v \in Watchers : out[v] \subseteq out'[v]
      /\ NewEvents(w, c) \subseteq told' \cup out'[w]
  BY NewEventsAreEvents DEF Scan, BackedInv, Shape
<1>3. Shape'
  BY <1>1, <1>2, SnapshotIsView DEF BackedInv, Shape
<1>4. CursorIsBacked'
  BY <1>1, <1>2 DEF BackedInv, CursorIsBacked
<1>5. ASSUME NEW v \in Watchers, NEW j \in Jobs, mem'[v][j] # "unseen"
      PROVE  <<j, mem'[v][j]>> \in told' \cup out'[v]
  <2>1. CASE v = w /\ CampaignOf[j] = c
    <3>1. mem'[v][j] = st[j] /\ j \in JobsOf(c)
      BY <1>1, <2>1 DEF BackedInv, Shape, Snapshot, JobsOf
    <3>2. CASE mem[w][j] = st[j]
      BY <1>2, <1>5, <2>1, <3>1, <3>2 DEF BackedInv, Backed
    <3>3. CASE mem[w][j] # st[j]
      BY <1>2, <2>1, <3>1, <3>3, NewStatusHasEvent
    <3> QED BY <3>2, <3>3
  <2>2. CASE ~(v = w /\ CampaignOf[j] = c)
    <3>1. mem'[v][j] = mem[v][j]
      BY <1>1, <2>2 DEF BackedInv, Shape, Snapshot
    <3> QED BY <1>2, <1>5, <3>1 DEF BackedInv, Backed
  <2> QED BY <2>1, <2>2
<1> QED BY <1>3, <1>4, <1>5 DEF BackedInv, Backed

LEMMA WatcherKeeps ==
  ASSUME BackedInv, NEW w \in Watchers,
         \/ WatcherStep(w) \/ Interrupt(w)
         \/ \E c \in Campaigns : Unreadable(w, c)
  PROVE  BackedInv'
<1> USE DEF BackedInv
<1>1. CASE Start(w)
  <2>1. UNCHANGED <<st, cursor, out, told>> /\ mem' = [mem EXCEPT ![w] = cursor]
    BY <1>1 DEF Start, campaignVars, streamVars
  <2> QED BY <2>1 DEF Shape, CursorIsBacked, Backed
<1>2. CASE Glob(w)
  <2>1. UNCHANGED <<st, cursor, mem, out, told>>
    BY <1>2 DEF Glob, campaignVars, streamVars
  <2> QED BY <2>1 DEF Shape, CursorIsBacked, Backed
<1>3. CASE Save(w)
  <2>1. UNCHANGED <<st, out, told>> /\ cursor' = mem[w] /\ out[w] = {}
    BY <1>3 DEF Save, campaignVars, streamVars
  <2>2. mem' = mem \/ mem' = [mem EXCEPT ![w] = Nothing]
    BY <1>3 DEF Save, Ends
  <2>3. Shape'
    BY <2>1, <2>2, NothingIsView DEF Shape
  <2>4. CursorIsBacked'
    BY <2>1 DEF CursorIsBacked, Backed
  <2>5. Backed'
    BY <2>1, <2>2 DEF Shape, Backed, Nothing
  <2> QED BY <2>3, <2>4, <2>5
<1>4. CASE \E c \in Campaigns : Scan(w, c)
  BY <1>4, ScanStep
<1>5. CASE \E e \in out[w] : Emit(w, e)
  <2>1. PICK e \in out[w] : Emit(w, e)
    BY <1>5
  <2>2. /\ UNCHANGED <<st, cursor, mem>>
        /\ told' = told \cup {e} /\ out' = [out EXCEPT ![w] = @ \ {e}]
    BY <2>1 DEF Emit, campaignVars
  <2> QED BY <2>2 DEF Shape, CursorIsBacked, Backed
<1>6. CASE Interrupt(w)
  <2>1. /\ UNCHANGED <<st, cursor, told>>
        /\ mem' = [mem EXCEPT ![w] = Nothing] /\ out' = [out EXCEPT ![w] = {}]
    BY <1>6 DEF Interrupt, Ends, CursorKept, campaignVars, streamVars
  <2> QED BY <2>1, NothingIsView DEF Shape, CursorIsBacked, Backed, Nothing
<1>7. CASE \E c \in Campaigns : Unreadable(w, c)
  <2>1. UNCHANGED <<st, cursor, mem, out, told>>
    BY <1>7 DEF Unreadable, campaignVars, streamVars
  <2> QED BY <2>1 DEF Shape, CursorIsBacked, Backed
<1> QED BY <1>1, <1>2, <1>3, <1>4, <1>5, <1>6, <1>7 DEF WatcherStep

LEMMA BackedStep == BackedInv /\ [Next]_vars => BackedInv'
<1> SUFFICES ASSUME BackedInv, [Next]_vars PROVE BackedInv'
  OBVIOUS
<1>1. CASE UNCHANGED vars
  BY <1>1 DEF BackedInv, Shape, CursorIsBacked, Backed, vars, campaignVars, watcherVars, streamVars
<1>2. CASE \E c \in Campaigns : Register(c) \/ Advance(c)
  BY <1>2, CampaignStep
<1>3. CASE \E w \in Watchers :
             WatcherStep(w) \/ Interrupt(w) \/ \E c \in Campaigns : Unreadable(w, c)
  BY <1>3, WatcherKeeps
<1>4. CASE LoseCursor
  <2>1. UNCHANGED <<st, mem, out, told>> /\ cursor' = Nothing
    BY <1>4 DEF LoseCursor, campaignVars, watcherVars, streamVars
  <2> QED BY <2>1, NothingIsView DEF BackedInv, Shape, CursorIsBacked, Backed, Nothing
<1> QED BY <1>1, <1>2, <1>3, <1>4 DEF Next

\* Whatever the cursor file says was seen has been printed or recorded by a
\* cold start: no interruption, lost cursor or second watcher drops an event
\* that the cursor already counts as delivered.
THEOREM DeliveredAtLeastOnce == Spec => []CursorIsBacked
<1>1. BackedInv => CursorIsBacked
  BY DEF BackedInv
<1> QED BY <1>1, BackedInit, BackedStep, PTL DEF Spec

-----------------------------------------------------------------------------
(* The hook comes after the end of every job of its campaign, and after    *)
(* their events: an end that is still to be printed is Accounted for.      *)

Accounted ==
  \A w \in Watchers, c \in Campaigns, s \in Dag!Terminal :
    <<c, s>> \in out[w] =>
      \A j \in JobsOf(c) : st[j] \in Dag!Terminal /\ <<j, st[j]>> \in told \cup out[w]

HookInv ==
  /\ BackedInv /\ Accounted /\ HookAfterJobs
  /\ hooks \in [Campaigns -> Nat]

\* A job that has ended keeps its status.
LEMMA EndsStay ==
  ASSUME NEW c \in Campaigns, Advance(c)
  PROVE  \A j \in Jobs : st[j] \in Dag!Terminal => st'[j] = st[j]
  BY DEF Advance, Dag!Next, Dag!Keeps, Dag!Ends, Dag!Recovers, Dag!Retries, Dag!Blocks,
         Dag!Launches, Dag!Moves, Dag!Terminal, Dag!Broken

\* A step that fires no hook and queues no end of a campaign, but may lose
\* what a watcher has queued.
LEMMA QuietStep ==
  ASSUME HookInv, BackedInv', UNCHANGED hooks, told \subseteq told',
         \A j \in Jobs : st[j] \in Dag!Terminal => st'[j] = st[j],
         \A w \in Watchers : out'[w] = out[w] \/ out'[w] = {}
  PROVE  HookInv'
<1>1. Accounted'
  BY DEF HookInv, Accounted, JobsOf
<1>2. HookAfterJobs'
  BY DEF HookInv, HookAfterJobs, JobsOf
<1> QED BY <1>1, <1>2 DEF HookInv

\* A campaign is queued as ended only when all its jobs have, and each of
\* their ends is then told or queued.
LEMMA ScanAccounts ==
  ASSUME HookInv, BackedInv', NEW w \in Watchers, NEW c \in Campaigns, Scan(w, c)
  PROVE  HookInv'
<1>1. UNCHANGED <<st, hooks>> /\ told \subseteq told'
  BY DEF Scan, campaignVars
<1>2. \A v \in Watchers : out[v] \subseteq out'[v] /\ (out'[v] # out[v] => v = w)
  BY DEF Scan, HookInv, BackedInv, Shape
<1>3. out'[w] \subseteq out[w] \cup NewEvents(w, c)
  BY DEF Scan, HookInv, BackedInv, Shape
<1>4. HookAfterJobs'
  BY <1>1 DEF HookInv, HookAfterJobs
<1>5. ASSUME NEW v \in Watchers, NEW d \in Campaigns, NEW s \in Dag!Terminal, <<d, s>> \in out'[v],
             NEW j \in JobsOf(d)
      PROVE  st[j] \in Dag!Terminal /\ <<j, st[j]>> \in told' \cup out'[v]
  <2>1. CASE <<d, s>> \in out[v]
    BY <1>1, <1>2, <2>1, <1>5 DEF HookInv, Accounted
  <2>2. CASE <<d, s>> \notin out[v]
    <3>1. v = w /\ <<d, s>> \in NewEvents(w, c)
      BY <1>2, <1>3, <1>5, <2>2
    <3>2. d = c /\ s = Summary(st, c)
      BY <3>1, WatchAssumption DEF NewEvents, EventsOf, JobsOf
    <3>3. st[j] \in Dag!Terminal
      BY <1>5, <3>2 DEF Summary, Dag!Terminal, Dag!Broken
    <3>4. j \in Jobs /\ CampaignOf[j] = c
      BY <1>5, <3>2 DEF JobsOf
    <3>5. mem'[w][j] = st[j]
      BY <3>4 DEF Scan, Snapshot, HookInv, BackedInv, Shape
    <3>6. st[j] # "unseen"
      BY <3>3 DEF Dag!Terminal, Dag!Broken
    <3> QED BY <3>1, <3>3, <3>4, <3>5, <3>6 DEF BackedInv, Backed
  <2> QED BY <2>1, <2>2
<1>6. Accounted'
  BY <1>1, <1>5 DEF Accounted, JobsOf
<1> QED BY <1>1, <1>4, <1>6 DEF HookInv

\* The campaign is printed when none of its jobs is queued any more.
LEMMA EmitAccounts ==
  ASSUME HookInv, BackedInv', NEW w \in Watchers, NEW e \in out[w], Emit(w, e)
  PROVE  HookInv'
<1>1. /\ UNCHANGED st /\ told' = told \cup {e}
      /\ out' = [out EXCEPT ![w] = @ \ {e}] /\ e \in Printable(w)
  BY DEF Emit, campaignVars
<1>2. Accounted'
  BY <1>1 DEF HookInv, BackedInv, Shape, Accounted, JobsOf
<1>3. hooks' \in [Campaigns -> Nat]
  BY DEF Emit, HookInv
<1>4. ASSUME NEW c \in Campaigns, hooks'[c] > 0, NEW j \in JobsOf(c)
      PROVE  st[j] \in Dag!Terminal /\ <<j, st[j]>> \in told'
  <2>1. CASE hooks[c] > 0
    BY <1>1, <1>4, <2>1 DEF HookInv, HookAfterJobs
  <2>2. CASE ~(hooks[c] > 0)
    <3>1. c = e[1] /\ e[2] \in Dag!Terminal
      BY <1>4, <2>2 DEF Emit
    <3>2. e = <<c, e[2]>>
      BY <3>1 DEF HookInv, BackedInv, Shape, Events
    <3>3. st[j] \in Dag!Terminal /\ <<j, st[j]>> \in told \cup out[w]
      BY <1>4, <3>1, <3>2 DEF HookInv, Accounted
    <3>4. <<j, st[j]>> \notin out[w]
      BY <1>1, <1>4, <3>1 DEF Printable
    <3> QED BY <1>1, <3>3, <3>4
  <2> QED BY <2>1, <2>2
<1>5. HookAfterJobs'
  BY <1>1, <1>4 DEF HookAfterJobs, JobsOf
<1> QED BY <1>2, <1>3, <1>5 DEF HookInv

LEMMA HookStep == HookInv /\ [Next]_vars => HookInv'
<1> SUFFICES ASSUME HookInv, [Next]_vars PROVE HookInv'
  OBVIOUS
<1>1. BackedInv'
  BY BackedStep DEF HookInv
<1>2. CASE UNCHANGED vars
  BY <1>1, <1>2, QuietStep DEF vars, campaignVars, watcherVars, streamVars
<1>3. CASE \E c \in Campaigns : Register(c) \/ Advance(c)
  <2>1. PICK c \in Campaigns : Register(c) \/ Advance(c)
    BY <1>3
  <2>2. UNCHANGED <<out, told, hooks>>
    BY <2>1 DEF Register, Advance, watcherVars, streamVars
  <2>3. \A j \in Jobs : st[j] \in Dag!Terminal => st'[j] = st[j]
    BY <2>1, EndsStay DEF Register
  <2> QED BY <1>1, <2>2, <2>3, QuietStep
<1>4. ASSUME NEW w \in Watchers, Start(w) \/ Glob(w) \/ Save(w) PROVE HookInv'
  <2>1. UNCHANGED <<st, out, told, hooks>>
    BY <1>4 DEF Start, Glob, Save, campaignVars, streamVars
  <2> QED BY <1>1, <2>1, QuietStep
<1>5. ASSUME NEW w \in Watchers, NEW c \in Campaigns, Unreadable(w, c) PROVE HookInv'
  <2>1. UNCHANGED <<st, out, told, hooks>>
    BY <1>5 DEF Unreadable, campaignVars, streamVars
  <2> QED BY <1>1, <2>1, QuietStep
<1>6. ASSUME NEW w \in Watchers, Interrupt(w) PROVE HookInv'
  <2>1. UNCHANGED <<st, told, hooks>> /\ out' = [out EXCEPT ![w] = {}]
    BY <1>6 DEF Interrupt, campaignVars, streamVars
  <2>2. \A v \in Watchers : out'[v] = out[v] \/ out'[v] = {}
    BY <2>1 DEF HookInv, BackedInv, Shape
  <2> QED BY <1>1, <2>1, <2>2, QuietStep
<1>7. CASE LoseCursor
  BY <1>1, <1>7, QuietStep DEF LoseCursor, campaignVars, watcherVars, streamVars
<1> QED BY <1>1, <1>2, <1>3, <1>4, <1>5, <1>6, <1>7, ScanAccounts, EmitAccounts DEF Next, WatcherStep

\* The hook of a campaign, which starts the postrun, is never fired before
\* every job of the campaign has ended for good and its end has been told.
THEOREM HookIsLast == Spec => []HookAfterJobs
<1>1. Init => HookInv
  BY BackedInit DEF Init, HookInv, Accounted, HookAfterJobs
<1>2. HookInv => HookAfterJobs
  BY DEF HookInv
<1> QED BY <1>1, <1>2, HookStep, PTL DEF Spec

-----------------------------------------------------------------------------
(* How often the hook is fired: a life of a service may still fire it for  *)
(* a campaign whose end it has not seen, or has seen and not yet printed.  *)

AllEnded(view, c) == \A j \in JobsOf(c) : view[j] \in Dag!Terminal
MayFire(c) ==
  {w \in Services : \/ pc[w] # "down" /\ ~AllEnded(mem[w], c)
                    \/ \E s \in Dag!Terminal : <<c, s>> \in out[w]}
Budgeted == \A c \in Campaigns : hooks[c] + Cardinality(MayFire(c)) <= Cardinality(Lives)

\* What is known to have ended is as it is known, and an end that is queued is
\* the one that the watcher knows.
EndsKnown ==
  /\ \A w \in Watchers : pc[w] = "down" => out[w] = {}
  /\ \A j \in Jobs : cursor[j] \in Dag!Terminal => cursor[j] = st[j]
  /\ \A w \in Watchers, j \in Jobs : mem[w][j] \in Dag!Terminal => mem[w][j] = st[j]
  /\ \A w \in Watchers, c \in Campaigns, s \in Dag!Terminal :
       <<c, s>> \in out[w] => AllEnded(mem[w], c) /\ s = Summary(mem[w], c)

Counters ==
  /\ pc \in [Watchers -> {"down", "idle", "scan"}] /\ starts \in [Watchers -> Nat]
  /\ hooks \in [Campaigns -> Nat] /\ IsFiniteSet(Lives)
BudgetInv == Shape /\ Counters /\ EndsKnown /\ Budgeted

LEMMA UnseenIsNoEnd == "unseen" \notin Dag!Terminal
  BY DEF Dag!Terminal, Dag!Broken

\* Two views that agree on the jobs of a campaign agree on its end.
LEMMA SameSummary ==
  ASSUME NEW v, NEW u, NEW c, \A j \in JobsOf(c) : v[j] = u[j]
  PROVE  Summary(v, c) = Summary(u, c) /\ (AllEnded(v, c) <=> AllEnded(u, c))
<1>1. AllEnded(v, c) <=> AllEnded(u, c)
  BY DEF AllEnded
<1>2. /\ (\A j \in JobsOf(c) : v[j] = "completed") <=> (\A j \in JobsOf(c) : u[j] = "completed")
      /\ (\E j \in JobsOf(c) : v[j] = "running") <=> (\E j \in JobsOf(c) : u[j] = "running")
  OBVIOUS
<1> QED BY <1>1, <1>2 DEF Summary, AllEnded

LEMMA EndedSummary ==
  ASSUME NEW v, NEW c, Summary(v, c) \in Dag!Terminal
  PROVE  AllEnded(v, c)
  BY DEF Summary, AllEnded, Dag!Terminal, Dag!Broken

\* The memory of the watcher after a scan, and what the scan has queued.
LEMMA ScanDoes ==
  ASSUME Shape, NEW w \in Watchers, NEW c \in Campaigns, Scan(w, c)
  PROVE  /\ UNCHANGED <<st, cursor, pc, starts, hooks>>
         /\ \A v \in Watchers \ {w} : mem'[v] = mem[v] /\ out'[v] = out[v]
         /\ \A j \in JobsOf(c) : mem'[w][j] = st[j]
         /\ \A j \in Jobs \ JobsOf(c) : mem'[w][j] = mem[w][j]
         /\ out'[w] \subseteq out[w] \cup NewEvents(w, c)
         /\ pc[w] = "scan"
<1>1. mem' = [mem EXCEPT ![w] = Snapshot(w, c)] /\ UNCHANGED <<st, cursor, pc, starts, hooks>>
      /\ pc[w] = "scan"
  BY DEF Scan, campaignVars
<1>2. mem'[w] = Snapshot(w, c) /\ \A v \in Watchers \ {w} : mem'[v] = mem[v]
  BY <1>1 DEF Shape
<1>3. out'[w] \subseteq out[w] \cup NewEvents(w, c) /\ \A v \in Watchers \ {w} : out'[v] = out[v]
  BY DEF Scan, Shape
<1> QED BY <1>1, <1>2, <1>3 DEF Snapshot, JobsOf

\* The end of a campaign is queued by a scan that has not known it before.
LEMMA NewEnd ==
  ASSUME Shape, EndsKnown, NEW w \in Watchers, NEW c \in Campaigns, NEW d \in Campaigns,
         NEW s \in Dag!Terminal, <<d, s>> \in NewEvents(w, c)
  PROVE  d = c /\ s = Summary(st, c) /\ AllEnded(st, c) /\ ~AllEnded(mem[w], c)
<1>1. d = c /\ s = Summary(st, c) /\ Changed(w, c)
  BY WatchAssumption DEF NewEvents, EventsOf, JobsOf
<1>2. AllEnded(st, c)
  BY <1>1, EndedSummary
<1>3. ASSUME AllEnded(mem[w], c) PROVE FALSE
  <2>1. \A j \in JobsOf(c) : mem[w][j] = st[j]
    BY <1>3 DEF AllEnded, EndsKnown, JobsOf
  <2>2. Summary(mem[w], c) = Summary(st, c)
    BY <2>1, SameSummary
  <2>3. ~Fresh(w, c)
    BY <1>3, UnseenIsNoEnd, WatchAssumption DEF Fresh, AllEnded
  <2> QED BY <1>1, <2>2, <2>3 DEF Changed
<1> QED BY <1>1, <1>2, <1>3

LEMMA ScanKnows ==
  ASSUME Shape, EndsKnown, NEW w \in Watchers, NEW c \in Campaigns, Scan(w, c)
  PROVE  EndsKnown'
<1>1. \A j \in Jobs : cursor'[j] \in Dag!Terminal => cursor'[j] = st'[j]
  BY ScanDoes DEF EndsKnown
<1>2. ASSUME NEW v \in Watchers, NEW j \in Jobs, mem'[v][j] \in Dag!Terminal
      PROVE  mem'[v][j] = st'[j]
  BY <1>2, ScanDoes DEF EndsKnown
<1>3. ASSUME NEW v \in Watchers, NEW d \in Campaigns, NEW s \in Dag!Terminal, <<d, s>> \in out'[v]
      PROVE  AllEnded(mem'[v], d) /\ s = Summary(mem'[v], d)
  <2>1. CASE v # w
    BY <1>3, <2>1, ScanDoes DEF EndsKnown
  <2>2. CASE v = w /\ <<d, s>> \in out[w]
    <3>1. AllEnded(mem[w], d) /\ s = Summary(mem[w], d)
      BY <2>2 DEF EndsKnown
    <3>2. \A j \in JobsOf(d) : mem[w][j] = mem'[w][j]
      BY <3>1, ScanDoes DEF AllEnded, EndsKnown, JobsOf
    <3> QED BY <2>2, <3>1, <3>2, SameSummary
  <2>3. CASE v = w /\ <<d, s>> \in NewEvents(w, c)
    <3>1. d = c /\ s = Summary(st, c) /\ AllEnded(st, c)
      BY <2>3, NewEnd
    <3>2. \A j \in JobsOf(c) : st[j] = mem'[w][j]
      BY ScanDoes
    <3> QED BY <2>3, <3>1, <3>2, SameSummary
  <2> QED BY <1>3, <2>1, <2>2, <2>3, ScanDoes
<1>4. \A v \in Watchers : pc'[v] = "down" => out'[v] = {}
  BY ScanDoes DEF EndsKnown
<1> QED BY <1>1, <1>2, <1>3, <1>4 DEF EndsKnown

\* A scan gives no watcher a new chance to fire the hook.
LEMMA ScanFires ==
  ASSUME Shape, EndsKnown, NEW w \in Watchers, NEW c \in Campaigns, Scan(w, c), NEW d \in Campaigns
  PROVE  MayFire(d)' \subseteq MayFire(d)
<1> SUFFICES ASSUME NEW v \in MayFire(d)' PROVE v \in MayFire(d)
  OBVIOUS
<1>1. v \in Services /\ v \in Watchers
  BY DEF MayFire, Watchers
<1>2. CASE v # w
  BY <1>1, <1>2, ScanDoes DEF MayFire
<1>3. CASE v = w /\ ~AllEnded(mem'[w], d)
  <2>1. ~AllEnded(mem[w], d)
    BY <1>3, ScanDoes DEF AllEnded, EndsKnown, JobsOf
  <2>2. pc[w] # "down"
    BY ScanDoes
  <2> QED BY <1>1, <1>3, <2>1, <2>2 DEF MayFire
<1>4. ASSUME v = w, NEW s \in Dag!Terminal, <<d, s>> \in out'[w] PROVE v \in MayFire(d)
  <2>1. CASE <<d, s>> \in out[w]
    BY <1>1, <1>4, <2>1 DEF MayFire
  <2>2. CASE <<d, s>> \in NewEvents(w, c)
    <3>1. ~AllEnded(mem[w], d) /\ pc[w] # "down"
      BY <2>2, NewEnd, ScanDoes
    <3> QED BY <1>1, <1>4, <3>1 DEF MayFire
  <2> QED BY <1>4, <2>1, <2>2, ScanDoes
<1> QED BY <1>2, <1>3, <1>4 DEF MayFire

LEMMA ChancesFinite ==
  ASSUME NEW c
  PROVE  IsFiniteSet(MayFire(c)) /\ Cardinality(MayFire(c)) \in Nat
<1>1. MayFire(c) \subseteq Services /\ IsFiniteSet(Services)
  BY WatchAssumption DEF MayFire
<1> QED BY <1>1, FS_Subset, FS_CardinalityType

\* A step that fires nothing and gives nobody a chance.
LEMMA NoChance ==
  ASSUME Counters, Budgeted, UNCHANGED hooks, Lives' = Lives,
         \A c \in Campaigns : MayFire(c)' \subseteq MayFire(c)
  PROVE  Budgeted' /\ IsFiniteSet(Lives)'
<1>2. ASSUME NEW c \in Campaigns
      PROVE  hooks'[c] + Cardinality(MayFire(c)') <= Cardinality(Lives)
  <2> DEFINE F == MayFire(c)
             G == MayFire(c)'
  <2>1. IsFiniteSet(F) /\ Cardinality(F) \in Nat /\ G \subseteq F
    BY ChancesFinite
  <2> HIDE DEF F, G
  <2>2. IsFiniteSet(G) /\ Cardinality(G) <= Cardinality(F)
    BY <2>1, FS_Subset
  <2>3. Cardinality(G) \in Nat /\ Cardinality(Lives) \in Nat /\ hooks[c] \in Nat
    BY <2>2, FS_CardinalityType DEF Counters
  <2>4. hooks[c] + Cardinality(F) <= Cardinality(Lives)
    BY DEF Budgeted, F
  <2>5. hooks'[c] + Cardinality(G) <= Cardinality(Lives)
    BY <2>1, <2>2, <2>3, <2>4
  <2> QED BY <2>5 DEF G
<1> QED BY <1>2 DEF Budgeted, Counters

\* A new life is one more chance for every campaign.
LEMMA StartBudget ==
  ASSUME Counters, Budgeted, NEW w \in Watchers, Start(w)
  PROVE  Budgeted' /\ IsFiniteSet(Lives)'
<1>1. UNCHANGED <<hooks, out>> /\ starts' = [starts EXCEPT ![w] = @ + 1]
      /\ \A v \in Watchers \ {w} : mem'[v] = mem[v] /\ pc'[v] = pc[v]
  BY DEF Start, streamVars, Counters
<1>2. \A c \in Campaigns : MayFire(c)' \subseteq MayFire(c) \cup ({w} \cap Services)
  BY <1>1 DEF MayFire, Watchers
<1>3. CASE w \notin Services
  <2>1. Lives' = Lives
    BY <1>1, <1>3 DEF Lives, Counters, Watchers
  <2>2. \A c \in Campaigns : MayFire(c)' \subseteq MayFire(c)
    BY <1>2, <1>3
  <2> QED BY <1>1, <2>1, <2>2, NoChance
<1>4. CASE w \in Services
  <2> DEFINE life == <<w, starts[w] + 1>>
  <2>1. /\ starts[w] \in Nat /\ starts'[w] = starts[w] + 1
        /\ \A v \in Services \ {w} : starts'[v] = starts[v]
    BY <1>1, <1>4 DEF Counters, Watchers
  <2>2. life \notin Lives
    BY <2>1 DEF Lives
  <2>3. Lives' = Lives \cup {life}
    <3>1. \A i : i \in 1..(starts[w] + 1) <=> i \in 1..starts[w] \/ i = starts[w] + 1
      BY <2>1
    <3>2. \A x : x \in Lives <=> \E v \in Services : \E i \in 1..starts[v] : x = <<v, i>>
      BY DEF Lives
    <3>3. \A x : x \in Lives' <=> \E v \in Services : \E i \in 1..starts'[v] : x = <<v, i>>
      BY DEF Lives
    <3>4. ASSUME NEW v \in Services, NEW i \in 1..starts'[v]
          PROVE  i \in 1..starts[v] \/ <<v, i>> = life
      BY <2>1, <3>1
    <3>5. ASSUME NEW v \in Services, NEW i \in 1..starts[v]
          PROVE  i \in 1..starts'[v]
      <4>1. CASE v = w
        BY <2>1, <3>1, <3>5, <4>1
      <4>2. CASE v # w
        BY <2>1, <3>5, <4>2
      <4> QED BY <4>1, <4>2
    <3>6. starts[w] + 1 \in 1..starts'[w]
      BY <2>1
    <3>7. ASSUME NEW x \in Lives' PROVE x \in Lives \/ x = life
      <4>1. PICK v \in Services : \E i \in 1..starts'[v] : x = <<v, i>>
        BY <3>3, <3>7
      <4>2. PICK i \in 1..starts'[v] : x = <<v, i>>
        BY <4>1
      <4>3. i \in 1..starts[v] \/ x = life
        BY <3>4, <4>2
      <4> QED BY <3>2, <4>2, <4>3
    <3>8. ASSUME NEW x \in Lives PROVE x \in Lives'
      <4>1. PICK v \in Services : \E i \in 1..starts[v] : x = <<v, i>>
        BY <3>2, <3>8
      <4>2. PICK i \in 1..starts[v] : x = <<v, i>>
        BY <4>1
      <4>3. i \in 1..starts'[v]
        BY <3>5, <4>2
      <4> QED BY <3>3, <4>2, <4>3
    <3>9. life \in Lives'
      BY <1>4, <3>3, <3>6
    <3> QED BY <3>7, <3>8, <3>9
  <2> HIDE DEF life
  <2>4. IsFiniteSet(Lives \cup {life}) /\ Cardinality(Lives \cup {life}) = Cardinality(Lives) + 1
    BY <2>2, FS_AddElement DEF Counters
  <2>5. ASSUME NEW c \in Campaigns
        PROVE  hooks'[c] + Cardinality(MayFire(c)') <= Cardinality(Lives) + 1
    <3> DEFINE F == MayFire(c)
               G == MayFire(c)'
    <3>1. IsFiniteSet(F) /\ Cardinality(F) \in Nat /\ G \subseteq F \cup {w}
      BY <1>2, ChancesFinite
    <3> HIDE DEF F, G
    <3>2. IsFiniteSet(F \cup {w}) /\ Cardinality(F \cup {w}) <= Cardinality(F) + 1
      <4>1. IsFiniteSet(F \cup {w}) /\ Cardinality(F \cup {w}) = IF w \in F THEN Cardinality(F) ELSE Cardinality(F) + 1
        BY <3>1, FS_AddElement
      <4> QED BY <3>1, <4>1
    <3>3. IsFiniteSet(G) /\ Cardinality(G) <= Cardinality(F \cup {w})
      BY <3>1, <3>2, FS_Subset
    <3>4. Cardinality(G) \in Nat /\ Cardinality(F \cup {w}) \in Nat
          /\ Cardinality(Lives) \in Nat /\ hooks[c] \in Nat
      BY <3>2, <3>3, FS_CardinalityType DEF Counters
    <3>5. hooks[c] + Cardinality(F) <= Cardinality(Lives)
      BY DEF Budgeted, F
    <3>6. hooks'[c] + Cardinality(G) <= Cardinality(Lives) + 1
      BY <1>1, <3>1, <3>2, <3>3, <3>4, <3>5
    <3> QED BY <3>6 DEF G
  <2> QED BY <2>3, <2>4, <2>5 DEF Budgeted
<1> QED BY <1>3, <1>4

\* The watcher that prints the end of a campaign has no further chance.
LEMMA EmitBudget ==
  ASSUME Shape, Counters, EndsKnown, Budgeted, NEW w \in Watchers, NEW e \in out[w], Emit(w, e)
  PROVE  EndsKnown' /\ Budgeted' /\ hooks' \in [Campaigns -> Nat] /\ IsFiniteSet(Lives)'
<1>1. UNCHANGED <<st, cursor, mem, pc, starts>> /\ out' = [out EXCEPT ![w] = @ \ {e}]
  BY DEF Emit, campaignVars
<1>2. out'[w] = out[w] \ {e} /\ \A v \in Watchers \ {w} : out'[v] = out[v]
  BY <1>1 DEF Shape
<1>3. Lives' = Lives
  BY <1>1 DEF Lives
<1>4. EndsKnown'
  BY <1>1, <1>2 DEF EndsKnown, AllEnded, Summary, JobsOf
<1>5. \A c \in Campaigns : MayFire(c)' \subseteq MayFire(c)
  BY <1>1, <1>2 DEF MayFire, AllEnded, Watchers
<1>6. \A c \in Campaigns : hooks'[c] = IF w \in Services /\ c = e[1] /\ e[2] \in Dag!Terminal
                                      THEN hooks[c] + 1 ELSE hooks[c]
  BY DEF Emit
<1>7. hooks' \in [Campaigns -> Nat]
  BY DEF Emit, Counters
<1>8. ASSUME NEW c \in Campaigns PROVE hooks'[c] + Cardinality(MayFire(c)') <= Cardinality(Lives)
  <2> DEFINE F == MayFire(c)
             G == MayFire(c)'
  <2>1. IsFiniteSet(F) /\ Cardinality(F) \in Nat /\ G \subseteq F
    BY <1>5, ChancesFinite
  <2>2. w \in Services /\ c = e[1] /\ e[2] \in Dag!Terminal => w \in F \ G
    <3> SUFFICES ASSUME w \in Services, c = e[1], e[2] \in Dag!Terminal PROVE w \in F \ G
      OBVIOUS
    <3>1. e = <<c, e[2]>>
      BY DEF Shape, Events
    <3>2. w \in F /\ AllEnded(mem[w], c) /\ e[2] = Summary(mem[w], c)
      BY <3>1 DEF MayFire, EndsKnown
    <3>3. \A s \in Dag!Terminal : <<c, s>> \in out[w] => <<c, s>> = e
      BY <3>1, <3>2 DEF EndsKnown
    <3>4. w \notin G
      BY <1>1, <1>2, <3>2, <3>3 DEF MayFire, AllEnded
    <3> QED BY <3>2, <3>4
  <2> HIDE DEF F, G
  <2>3. IsFiniteSet(G) /\ Cardinality(G) <= Cardinality(F)
    BY <2>1, FS_Subset
  <2>4. ASSUME w \in F \ G PROVE Cardinality(G) <= Cardinality(F) - 1
    <3>1. IsFiniteSet(F \ {w}) /\ Cardinality(F \ {w}) = Cardinality(F) - 1
      BY <2>1, <2>4, FS_RemoveElement
    <3>2. G \subseteq F \ {w}
      BY <2>1, <2>4
    <3>3. Cardinality(G) <= Cardinality(F \ {w})
      BY <3>1, <3>2, FS_Subset
    <3> QED BY <3>1, <3>3
  <2>5. Cardinality(G) \in Nat /\ Cardinality(Lives) \in Nat /\ hooks[c] \in Nat
    BY <2>3, FS_CardinalityType DEF Counters
  <2>6. hooks[c] + Cardinality(F) <= Cardinality(Lives)
    BY DEF Budgeted, F
  <2>7. hooks'[c] + Cardinality(G) <= Cardinality(Lives)
    BY <1>6, <2>1, <2>2, <2>3, <2>4, <2>5, <2>6
  <2> QED BY <2>7 DEF G
<1> QED BY <1>3, <1>4, <1>7, <1>8 DEF Budgeted, Counters

LEMMA BudgetStep ==
  ASSUME BudgetInv, Shape', [Next]_vars
  PROVE  BudgetInv'
<1>0. Shape /\ Counters /\ EndsKnown /\ Budgeted
  BY DEF BudgetInv
<1>1. ASSUME UNCHANGED <<starts, hooks>>, pc' \in [Watchers -> {"down", "idle", "scan"}],
             EndsKnown', \A c \in Campaigns : MayFire(c)' \subseteq MayFire(c)
      PROVE  BudgetInv'
  <2>1. Lives' = Lives
    BY <1>1 DEF Lives
  <2> QED BY <1>0, <1>1, <2>1, NoChance DEF BudgetInv, Counters
<1>2. CASE UNCHANGED vars
  <2>1. UNCHANGED <<st, cursor, pc, mem, out, starts, hooks>>
    BY <1>2 DEF vars, campaignVars, watcherVars, streamVars
  <2>2. EndsKnown' /\ (\A c \in Campaigns : MayFire(c)' \subseteq MayFire(c))
    BY <1>0, <2>1 DEF EndsKnown, MayFire, AllEnded, Summary, JobsOf
  <2> QED BY <1>0, <1>1, <2>1, <2>2 DEF Counters
<1>3. ASSUME NEW c \in Campaigns, Register(c) \/ Advance(c) PROVE BudgetInv'
  <2>1. UNCHANGED <<cursor, pc, mem, out, starts, hooks>>
    BY <1>3 DEF Register, Advance, watcherVars, streamVars
  <2>2. \A j \in Jobs : st[j] \in Dag!Terminal => st'[j] = st[j]
    BY <1>3, EndsStay DEF Register
  <2>3. EndsKnown' /\ (\A d \in Campaigns : MayFire(d)' \subseteq MayFire(d))
    BY <1>0, <2>1, <2>2 DEF EndsKnown, MayFire, AllEnded, Summary, JobsOf
  <2> QED BY <1>0, <1>1, <2>1, <2>3 DEF Counters
<1>4. CASE LoseCursor
  <2>1. UNCHANGED <<st, pc, mem, out, starts, hooks>> /\ cursor' = Nothing
    BY <1>4 DEF LoseCursor, campaignVars, watcherVars, streamVars
  <2>2. \A j \in Jobs : cursor'[j] \notin Dag!Terminal
    BY <2>1, UnseenIsNoEnd DEF Nothing
  <2>3. EndsKnown' /\ (\A d \in Campaigns : MayFire(d)' \subseteq MayFire(d))
    BY <1>0, <2>1, <2>2 DEF EndsKnown, MayFire, AllEnded, Summary, JobsOf
  <2> QED BY <1>0, <1>1, <2>1, <2>3 DEF Counters
<1>5. ASSUME NEW w \in Watchers, Start(w) PROVE BudgetInv'
  <2>1. /\ UNCHANGED <<st, cursor, out, hooks>> /\ mem' = [mem EXCEPT ![w] = cursor]
        /\ starts' = [starts EXCEPT ![w] = @ + 1] /\ pc' = [pc EXCEPT ![w] = "idle"]
    BY <1>5 DEF Start, campaignVars, streamVars
  <2>2. Budgeted' /\ IsFiniteSet(Lives)'
    BY <1>0, <1>5, StartBudget
  <2>3. starts' \in [Watchers -> Nat] /\ pc' \in [Watchers -> {"down", "idle", "scan"}]
    BY <1>0, <2>1 DEF Counters
  <2>4. out[w] = {}
    BY <1>0, <1>5 DEF EndsKnown, Start
  <2>5. \A v \in Watchers \ {w} : mem'[v] = mem[v] /\ pc'[v] = pc[v]
    BY <1>0, <2>1 DEF Counters
  <2>6. mem'[w] = cursor /\ pc'[w] = "idle"
    BY <1>0, <2>1 DEF Counters, Shape
  <2>7. EndsKnown'
    BY <1>0, <2>1, <2>4, <2>5, <2>6 DEF EndsKnown, AllEnded, Summary, JobsOf
  <2> QED BY <1>0, <2>1, <2>2, <2>3, <2>7 DEF BudgetInv, Counters
<1>6. ASSUME NEW w \in Watchers, NEW c \in Campaigns, Scan(w, c) PROVE BudgetInv'
  BY <1>0, <1>1, <1>6, ScanDoes, ScanKnows, ScanFires DEF Counters
<1>7. ASSUME NEW w \in Watchers, NEW e \in out[w], Emit(w, e) PROVE BudgetInv'
  <2>1. UNCHANGED <<pc, starts>>
    BY <1>7 DEF Emit
  <2> QED BY <1>0, <1>7, <2>1, EmitBudget DEF BudgetInv, Counters
<1>8. ASSUME NEW w \in Watchers, Glob(w) \/ \E c \in Campaigns : Unreadable(w, c) PROVE BudgetInv'
  <2>1. /\ UNCHANGED <<st, cursor, mem, out, starts, hooks>> /\ pc[w] # "down"
        /\ pc' = pc \/ pc' = [pc EXCEPT ![w] = "scan"]
    BY <1>8 DEF Glob, Unreadable, campaignVars, streamVars
  <2>2. pc' \in [Watchers -> {"down", "idle", "scan"}] /\ \A v \in Watchers : pc'[v] = "down" <=> pc[v] = "down"
    BY <1>0, <2>1 DEF Counters
  <2>3. EndsKnown'
    BY <1>0, <2>1, <2>2 DEF EndsKnown, AllEnded, Summary, JobsOf
  <2>4. \A d \in Campaigns : MayFire(d)' \subseteq MayFire(d)
    BY <2>1, <2>2 DEF MayFire, AllEnded, Watchers
  <2> QED BY <1>1, <2>1, <2>2, <2>3, <2>4
<1>9. ASSUME NEW w \in Watchers, Save(w) \/ Interrupt(w) PROVE BudgetInv'
  <2>1. /\ UNCHANGED <<st, starts, hooks>> /\ cursor' \in {cursor, mem[w]} /\ pc[w] # "down"
        /\ \/ mem' = mem /\ pc' = [pc EXCEPT ![w] = "idle"] /\ out' = out
           \/ mem' = [mem EXCEPT ![w] = Nothing] /\ pc' = [pc EXCEPT ![w] = "down"]
              /\ out' = [out EXCEPT ![w] = {}]
    <3>1. CASE Save(w)
      <4>1. out = [out EXCEPT ![w] = {}]
        BY <1>0, <3>1 DEF Save, Shape
      <4> QED BY <3>1, <4>1 DEF Save, Ends, campaignVars, streamVars
    <3>2. CASE Interrupt(w)
      BY <3>2 DEF Interrupt, Ends, CursorKept, campaignVars, streamVars
    <3> QED BY <1>9, <3>1, <3>2
  <2>2. \A j \in Jobs : cursor'[j] \in Dag!Terminal => cursor'[j] = st[j]
    BY <1>0, <2>1 DEF EndsKnown
  <2>3. /\ \A v \in Watchers \ {w} : mem'[v] = mem[v] /\ pc'[v] = pc[v] /\ out'[v] = out[v]
        /\ \/ mem'[w] = mem[w] /\ pc'[w] = "idle" /\ out'[w] = out[w]
           \/ mem'[w] = Nothing /\ pc'[w] = "down" /\ out'[w] = {}
        /\ pc' \in [Watchers -> {"down", "idle", "scan"}]
    BY <1>0, <2>1 DEF Shape, Counters
  <2>4. \A v \in Watchers, j \in Jobs : mem'[v][j] \in Dag!Terminal => mem'[v][j] = st[j]
    <3>1. \A j \in Jobs : Nothing[j] \notin Dag!Terminal
      BY UnseenIsNoEnd DEF Nothing
    <3> QED BY <1>0, <2>3, <3>1 DEF EndsKnown
  <2>5. \A v \in Watchers : out'[v] = {} \/ (out'[v] = out[v] /\ mem'[v] = mem[v])
    BY <2>3
  <2>6. ASSUME NEW v \in Watchers, NEW c \in Campaigns, NEW s \in Dag!Terminal, <<c, s>> \in out'[v]
        PROVE  AllEnded(mem'[v], c) /\ s = Summary(mem'[v], c)
    BY <1>0, <2>5, <2>6 DEF EndsKnown
  <2>7. \A v \in Watchers : pc'[v] = "down" => out'[v] = {}
    BY <1>0, <2>3 DEF EndsKnown
  <2>8. EndsKnown'
    BY <2>1, <2>2, <2>4, <2>6, <2>7 DEF EndsKnown
  <2>9. \A d \in Campaigns : MayFire(d)' \subseteq MayFire(d)
    BY <2>1, <2>3 DEF MayFire, Watchers
  <2> QED BY <1>1, <2>1, <2>3, <2>8, <2>9
<1> QED BY <1>2, <1>3, <1>4, <1>5, <1>6, <1>7, <1>8, <1>9 DEF Next, WatcherStep

\* Over all restarts, cursors that are lost or shared and campaigns that end in
\* between, a campaign has its hook at most once for each life of a service.
THEOREM HookOncePerLife == Spec => []HookBudget
<1>1. Init => BudgetInv
  <2> SUFFICES ASSUME Init PROVE BudgetInv
    OBVIOUS
  <2>1. Shape
    BY BackedInit DEF BackedInv
  <2>2. Lives = {}
    <3>1. \A w \in Services : starts[w] = 0
      BY DEF Init, Watchers
    <3>2. 1..0 = {}
      OBVIOUS
    <3> QED BY <3>1, <3>2 DEF Lives
  <2>3. \A c : MayFire(c) = {}
    <3>1. \A w \in Services : pc[w] = "down" /\ out[w] = {}
      BY DEF Init, Watchers
    <3> QED BY <3>1 DEF MayFire
  <2>4. Counters /\ Cardinality(Lives) = 0
    BY <2>2, FS_EmptySet DEF Init, Counters
  <2>5. Budgeted
    BY <2>3, <2>4, FS_EmptySet DEF Init, Budgeted
  <2>6. EndsKnown
    BY UnseenIsNoEnd DEF Init, EndsKnown, Nothing
  <2> QED BY <2>1, <2>4, <2>5, <2>6 DEF BudgetInv
<1>2. BackedInv' => Shape'
  BY DEF BackedInv
<1>3. BudgetInv /\ BackedInv' /\ [Next]_vars => BudgetInv'
  BY <1>2, BudgetStep
<1>4. BudgetInv => HookBudget
  <2> SUFFICES ASSUME BudgetInv, NEW c \in Campaigns PROVE hooks[c] <= Cardinality(Lives)
    BY DEF HookBudget
  <2>1. Cardinality(MayFire(c)) \in Nat /\ Cardinality(Lives) \in Nat /\ hooks[c] \in Nat
    BY ChancesFinite, FS_CardinalityType DEF BudgetInv, Counters
  <2> QED BY <2>1 DEF BudgetInv, Budgeted
<1> QED BY <1>1, <1>3, <1>4, BackedInit, BackedStep, PTL DEF Spec
=============================================================================
