------------------------------ MODULE Publisher ------------------------------
(***************************************************************************)
(* scripts/publish_experiment_terminal_event.py: publications of terminal  *)
(* results, each repeated until it succeeds, write one event file in a     *)
(* clone that has the event branch checked out, commit it and push it.     *)
(* Several clones push to one remote branch; nothing ever pulls.  A        *)
(* publication may fail or be killed between any two steps.                *)
(*                                                                         *)
(* A commit of the event branch is identified by its history: the sequence *)
(* of the events it added, and of the clones in which they were committed, *)
(* because published_at and the date of the commit make two commits of one *)
(* event in two clones different commits.                                  *)
(***************************************************************************)
EXTENDS Naturals, SequencesExt

CONSTANTS
  Publications,  \* the publications
  Clones,        \* the clones they use
  CloneOf,       \* --worktree
  EventOf,       \* result_id @ result_revision
  PayloadOf,     \* what the event says, published_at apart
  Pushes,        \* those with --push
  EnsuresPr,     \* those with --ensure-pr
  MaxFailures    \* bound: publications that fail or are killed underway

ASSUME PublisherAssumption ==
  /\ CloneOf \in [Publications -> Clones] /\ MaxFailures \in Nat
  /\ Pushes \subseteq Publications /\ EnsuresPr \subseteq Publications
  /\ DOMAIN EventOf = Publications /\ DOMAIN PayloadOf = Publications
  /\ "nobody" \notin Publications

VARIABLES
  ppc,       \* where each publication is
  owner,     \* who holds the publisher lock of each clone
  dirty,     \* the event file of each clone that is not committed
  log,       \* the event branch of each clone
  origin,    \* origin/experiment-results, as each clone last fetched it
  remote,    \* the branch itself
  pr,        \* is a pull request open
  failures

repo == <<dirty, log, origin, remote, pr>>
pubVars == <<ppc, owner, repo, failures>>

Nobody == "nobody"
Clean == {}
Entry(p) == [event |-> EventOf[p], payload |-> PayloadOf[p], clone |-> CloneOf[p]]

PubInit ==
  /\ ppc = [p \in Publications |-> "idle"]
  /\ owner = [c \in Clones |-> Nobody]
  /\ dirty = [c \in Clones |-> Clean] /\ log = [c \in Clones |-> <<>>]
  /\ origin = [c \in Clones |-> <<>>] /\ remote = <<>> /\ pr = FALSE
  /\ failures = 0

-----------------------------------------------------------------------------
At(p, pc) == ppc[p] = pc
Goes(p, pc) == ppc' = [ppc EXCEPT ![p] = pc] /\ UNCHANGED owner
\* Mutant: the lock outlives the process that holds it.
LockLeft(p) == UNCHANGED owner
Unlock(p) == owner' = [owner EXCEPT ![CloneOf[p]] = Nobody]
Ends(p, pc) == ppc' = [ppc EXCEPT ![p] = pc] /\ Unlock(p)

\* Mutant: only a file with the same content counts as published.
PublishedAlike(p) == \E i \in DOMAIN log[CloneOf[p]] : log[CloneOf[p]][i] = Entry(p)
\* event_path.exists(): in a clean worktree the file is that of the branch.
Exists(p) == \E i \in DOMAIN log[CloneOf[p]] : log[CloneOf[p]][i].event = EventOf[p]
\* The identity of a payload leaves published_at out.
Collides(p) ==
  \E e \in ToSet(log[CloneOf[p]]) : e.event = EventOf[p] /\ e.payload # PayloadOf[p]
\* `git log -1 -- <event>`, or HEAD after the commit of a new event.
Commit(p) ==
  LET l == log[CloneOf[p]] IN SubSeq(l, 1, SelectLastInSeq(l, LAMBDA e : e.event = EventOf[p]))

Begin(p) ==
  /\ At(p, "idle") /\ owner[CloneOf[p]] = Nobody
  /\ owner' = [owner EXCEPT ![CloneOf[p]] = p]
  /\ ppc' = [ppc EXCEPT ![p] = "check"]
  /\ UNCHANGED repo

\* A dirty worktree is refused; it is tried again later, like every error.
Refuse(p) ==
  /\ At(p, "check") /\ dirty[CloneOf[p]] # Clean
  /\ Ends(p, "idle") /\ UNCHANGED repo

\* _verify_canonical_remote fetches; an event that exists must be the same.
Check(p) ==
  /\ At(p, "check") /\ dirty[CloneOf[p]] = Clean
  /\ origin' = IF p \in Pushes THEN [origin EXCEPT ![CloneOf[p]] = remote] ELSE origin
  /\ IF ~Exists(p) THEN Goes(p, "write")
     ELSE IF Collides(p) THEN Ends(p, "collision")
     ELSE Goes(p, "resume")
  /\ UNCHANGED <<dirty, log, remote, pr>>

Write(p) ==
  /\ At(p, "write")
  /\ dirty' = [dirty EXCEPT ![CloneOf[p]] = {Entry(p)}]
  /\ Goes(p, "commit")
  /\ UNCHANGED <<log, origin, remote, pr>>

CommitEvent(p) ==
  /\ At(p, "commit")
  /\ log' = [log EXCEPT ![CloneOf[p]] = Append(@, Entry(p))]
  /\ dirty' = [dirty EXCEPT ![CloneOf[p]] = Clean]
  /\ Goes(p, "push")
  /\ UNCHANGED <<origin, remote, pr>>

Reachable(p) == IsPrefix(Commit(p), origin[CloneOf[p]])
FastForward(p) == IsPrefix(remote, Commit(p))

\* Mutant: an event that is committed needs no push.
FreshOnly(p) == p \in Pushes /\ At(p, "push")
\* _ensure_remote_branch.
MustPush(p) == p \in Pushes /\ ~Reachable(p)
\* What comes after it: only a new event goes on to the pull request.
AfterPush(p) == IF At(p, "push") /\ p \in EnsuresPr THEN Goes(p, "pr") ELSE Ends(p, "ok")

NothingToPush(p) ==
  /\ ppc[p] \in {"push", "resume"} /\ ~MustPush(p)
  /\ AfterPush(p) /\ UNCHANGED repo

Push(p) ==
  /\ ppc[p] \in {"push", "resume"} /\ MustPush(p) /\ FastForward(p)
  /\ remote' = Commit(p)
  /\ origin' = [origin EXCEPT ![CloneOf[p]] = Commit(p)]
  /\ AfterPush(p)
  /\ UNCHANGED <<dirty, log, pr>>

PushRejected(p) ==
  /\ ppc[p] \in {"push", "resume"} /\ MustPush(p) /\ ~FastForward(p)
  /\ Ends(p, "idle") /\ UNCHANGED repo

\* gh pr list, and gh pr create if there is none.
EnsurePr(p) ==
  /\ At(p, "pr")
  /\ pr' = TRUE
  /\ Ends(p, "ok")
  /\ UNCHANGED <<dirty, log, origin, remote>>

PubStep(p) ==
  /\ \/ Begin(p) \/ Refuse(p) \/ Check(p) \/ Write(p) \/ CommitEvent(p)
     \/ NothingToPush(p) \/ Push(p) \/ PushRejected(p) \/ EnsurePr(p)
  /\ UNCHANGED failures

\* It is killed, or git, the network or gh fails; a push may fail after it
\* reached the remote branch.
Fail(p) ==
  /\ owner[CloneOf[p]] = p /\ failures < MaxFailures
  /\ failures' = failures + 1
  /\ Ends(p, "idle")
  /\ \/ remote' = remote
     \/ ppc[p] \in {"push", "resume"} /\ MustPush(p) /\ FastForward(p) /\ remote' = Commit(p)
  /\ UNCHANGED <<dirty, log, origin, pr>>

PubNext == \E p \in Publications : PubStep(p) \/ Fail(p)
PubSpec == PubInit /\ [][PubNext]_pubVars
\* Every publication is repeated; the lock of a clone is granted to each in turn.
PubFairSpec == 
  /\ PubSpec
  /\ \A p \in Publications : WF_pubVars(PubStep(p)) /\ SF_pubVars(Begin(p) /\ UNCHANGED failures)

-----------------------------------------------------------------------------
(* Properties                                                              *)

\* Each variable has its shape.
Entries == {Entry(p) : p \in Publications}
PubTypeOK ==
  /\ ppc \in [Publications -> {"idle", "check", "write", "commit", "push", "resume", "pr",
                               "ok", "collision"}]
  /\ owner \in [Clones -> Publications \cup {Nobody}]
  /\ dirty \in [Clones -> SUBSET Entries]
  /\ log \in [Clones -> Seq(Entries)] /\ origin \in [Clones -> Seq(Entries)]
  /\ remote \in Seq(Entries) /\ pr \in BOOLEAN /\ failures \in Nat

\* The remote branch tells of each revision of a result at most once, although
\* it may be published from several clones and after every failure again.
EventOnce ==
  \A i, k \in DOMAIN remote : remote[i].event = remote[k].event => i = k

\* A publication that was to push and reports success is on the remote branch
\* with its own content (publish, _ensure_remote_branch).
SuccessIsPushed ==
  \A p \in Publications : At(p, "ok") /\ p \in Pushes => Entry(p) \in ToSet(remote)

\* A clone in which no later publication can succeed: a file was written and
\* not committed, or its branch and the remote one went different ways, be it
\* by two commits of the same event.
Stuck(c) == dirty[c] # Clean \/ ~(IsPrefix(log[c], remote) \/ IsPrefix(remote, log[c]))

\* A publication that is repeated gets through, or its event says something
\* else already, or its clone is stuck: no other order of failures, retries and
\* publications of other events stops it.
GetsThrough ==
  \A p \in Publications :
    <>(At(p, "ok") \/ At(p, "collision") \/ (owner[CloneOf[p]] = Nobody /\ Stuck(CloneOf[p])))
=============================================================================
