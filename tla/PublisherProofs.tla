--------------------------- MODULE PublisherProofs ---------------------------
(***************************************************************************)
(* What the event branch promises, for any number of publications, clones  *)
(* and failures.  It tells of a revision once because each clone does,     *)
(* which the lock of the clone protects, and because git refuses a push    *)
(* that is no fast forward; a success is on it because what a clone        *)
(* believes of the branch is a prefix of it.                               *)
(***************************************************************************)
EXTENDS Publisher, SequenceTheorems, TLAPS

Is(l, i, e) == i \in 1..Len(l) /\ l[i] = e
Tells(l, e) == \E i \in 1..Len(l) : l[i] = e
Once(l) == \A i, k \in 1..Len(l) : l[i].event = l[k].event => i = k
Extends(s, t) == Len(s) <= Len(t) /\ \A i \in 1..Len(s) : s[i] = t[i]
Made(l, c) == \A i \in 1..Len(l) : l[i].clone = c

LEMMA PrefixMeans ==
  ASSUME NEW S, NEW s \in Seq(S), NEW t \in Seq(S)
  PROVE  IsPrefix(s, t) <=> Extends(s, t)
<1>1. Len(s) \in Nat /\ Len(t) \in Nat /\ SubSeq(s, 1, Len(s)) = s
  BY LenProperties, SubSeqFull
<1>2. ASSUME Len(s) <= Len(t)
      PROVE  SubSeq(t, 1, Len(s)) = s <=> \A i \in 1..Len(s) : s[i] = t[i]
  <2>1. \A i \in 1..Len(s) : t[i] \in S
    BY <1>1, <1>2, ElementOfSeq
  <2>2. /\ SubSeq(t, 1, Len(s)) \in Seq(S) /\ Len(SubSeq(t, 1, Len(s))) = Len(s)
        /\ \A i \in 1..Len(s) : SubSeq(t, 1, Len(s))[i] = t[i]
    BY <1>1, <2>1, SubSeqProperties
  <2>3. (\A i \in 1..Len(s) : s[i] = t[i]) => SubSeq(t, 1, Len(s)) = s
    BY <2>2, SeqEqual
  <2> QED BY <2>2, <2>3
<1> QED BY <1>1, <1>2 DEF IsPrefix, Extends

LEMMA EntriesOK == \A p \in Publications : Entry(p) \in Entries /\ Entry(p).event = EventOf[p]
  BY DEF Entries, Entry

\* The commit of an event that the branch of the clone tells of once.
LEMMA CommitIs ==
  ASSUME NEW p \in Publications, log[CloneOf[p]] \in Seq(Entries), Once(log[CloneOf[p]]),
         NEW i, Is(log[CloneOf[p]], i, Entry(p))
  PROVE  /\ Commit(p) \in Seq(Entries) /\ Len(Commit(p)) = i
         /\ Extends(Commit(p), log[CloneOf[p]]) /\ Is(Commit(p), i, Entry(p))
<1> DEFINE l == log[CloneOf[p]]
           I == {k \in 1..Len(l) : l[k].event = EventOf[p]}
<1>1. Len(l) \in Nat /\ \A k \in 1..Len(l) : l[k] \in Entries
  BY LenProperties, ElementOfSeq
<1>2. I = {i} /\ i \in Nat
  BY <1>1, EntriesOK DEF Is, Once
<1>3. Max(I) = i
  BY <1>2 DEF Max
<1>4. SelectLastInSeq(l, LAMBDA e : e.event = EventOf[p]) = i
  BY <1>2, <1>3 DEF SelectLastInSeq
<1>5. Commit(p) = SubSeq(l, 1, i)
  BY <1>4 DEF Commit
<1>6. i \in 1..Len(l) /\ \A k \in 1..i : l[k] \in Entries
  BY <1>1 DEF Is
<1>7. /\ Commit(p) \in Seq(Entries) /\ Len(Commit(p)) = i
      /\ \A k \in 1..i : Commit(p)[k] = l[k]
  BY <1>1, <1>5, <1>6, SubSeqProperties
<1> QED BY <1>1, <1>6, <1>7 DEF Extends, Is

Underway == {"check", "write", "commit", "push", "resume", "pr"}
PubInv ==
  /\ PubTypeOK
  /\ \A p \in Publications :
       /\ ppc[p] \in Underway => owner[CloneOf[p]] = p
       /\ ppc[p] \in {"write", "commit"} => ~Exists(p)
       /\ ppc[p] \in {"push", "resume"} => Tells(log[CloneOf[p]], Entry(p))
       /\ ppc[p] \in {"pr", "ok"} /\ p \in Pushes => Tells(remote, Entry(p))
  /\ \A c \in Clones : Once(log[c]) /\ Made(log[c], c) /\ Extends(origin[c], remote)
  /\ Once(remote)

\* What a push puts on the remote branch.
LEMMA PushedIs ==
  ASSUME PubInv, NEW p \in Publications, ppc[p] \in {"push", "resume"}, FastForward(p)
  PROVE  /\ Commit(p) \in Seq(Entries) /\ Extends(remote, Commit(p))
         /\ Tells(Commit(p), Entry(p)) /\ Once(Commit(p))
<1>1. /\ log[CloneOf[p]] \in Seq(Entries) /\ Once(log[CloneOf[p]]) /\ remote \in Seq(Entries)
  BY PublisherAssumption DEF PubInv, PubTypeOK
<1>2. PICK i : Is(log[CloneOf[p]], i, Entry(p))
  BY DEF PubInv, Tells, Is
<1>3. /\ Commit(p) \in Seq(Entries) /\ Len(Commit(p)) = i
      /\ Extends(Commit(p), log[CloneOf[p]]) /\ Is(Commit(p), i, Entry(p))
  BY <1>1, <1>2, CommitIs
<1>4. Extends(remote, Commit(p))
  BY <1>1, <1>3, PrefixMeans DEF FastForward
<1>5. Len(Commit(p)) \in Nat /\ Len(log[CloneOf[p]]) \in Nat
  BY <1>1, <1>3, LenProperties
<1>6. Once(Commit(p))
  <2>1. ASSUME NEW k \in 1..Len(Commit(p))
        PROVE  k \in 1..Len(log[CloneOf[p]]) /\ Commit(p)[k] = log[CloneOf[p]][k]
    BY <1>3, <1>5, <2>1 DEF Extends
  <2> QED BY <1>1, <2>1, Zenon DEF Once
<1> QED BY <1>3, <1>4, <1>6 DEF Tells, Is

\* The remote branch stays, or is what a publication pushed.
LEMMA RemoteStep ==
  ASSUME PubInv, [PubNext]_pubVars
  PROVE  /\ remote' \in Seq(Entries) /\ Extends(remote, remote') /\ Once(remote')
         /\ \A e : Tells(remote, e) => Tells(remote', e)
         /\ \A c \in Clones : Extends(origin[c], remote')
<1>1. remote \in Seq(Entries) /\ Once(remote) /\ \A c \in Clones : Extends(origin[c], remote)
  BY DEF PubInv, PubTypeOK
<1>2. \/ remote' = remote
      \/ \E p \in Publications : ppc[p] \in {"push", "resume"} /\ FastForward(p) /\ remote' = Commit(p)
  BY DEF PubNext, PubStep, Begin, Refuse, Check, Write, CommitEvent, NothingToPush, Push,
         PushRejected, EnsurePr, Fail, pubVars, repo
<1>3. remote' \in Seq(Entries) /\ Extends(remote, remote') /\ Once(remote')
  BY <1>1, <1>2, PushedIs DEF Extends
<1>4. Len(remote) \in Nat /\ Len(remote') \in Nat /\ \A c \in Clones : Len(origin[c]) \in Nat
  BY <1>1, <1>3, LenProperties DEF PubInv, PubTypeOK
<1>5. \A e : Tells(remote, e) => Tells(remote', e)
  BY <1>3, <1>4 DEF Tells, Extends
<1>6. \A c \in Clones : Extends(origin[c], remote')
  BY <1>1, <1>3, <1>4 DEF Extends
<1> QED BY <1>3, <1>5, <1>6

\* A publication moves from one place to another and holds the lock of its
\* clone while it is underway.
Moved(p, pc) ==
  /\ ppc' = [ppc EXCEPT ![p] = pc]
  /\ pc \in Underway => owner' = [owner EXCEPT ![CloneOf[p]] = p]
  /\ pc \notin Underway => owner' = [owner EXCEPT ![CloneOf[p]] = Nobody]
  /\ \A q \in Publications : CloneOf[q] = CloneOf[p] /\ ppc[q] \in Underway => q = p

LEMMA StepMoves ==
  ASSUME PubInv, NEW p \in Publications, PubStep(p) \/ Fail(p)
  PROVE  \/ Begin(p) /\ Moved(p, "check")
         \/ Check(p) /\ ~Exists(p) /\ Moved(p, "write")
         \/ Check(p) /\ Exists(p) /\ ~Collides(p) /\ Moved(p, "resume")
         \/ (Check(p) \/ Refuse(p) \/ PushRejected(p) \/ Fail(p)) /\ (Moved(p, "idle") \/ Moved(p, "collision"))
         \/ Write(p) /\ Moved(p, "commit")
         \/ CommitEvent(p) /\ Moved(p, "push")
         \/ (NothingToPush(p) \/ Push(p)) /\ (Moved(p, "pr") \/ Moved(p, "ok"))
         \/ EnsurePr(p) /\ ppc[p] = "pr" /\ Moved(p, "ok")
<1>1. /\ ppc[p] \in Underway => owner[CloneOf[p]] = p
      /\ \A q \in Publications : CloneOf[q] = CloneOf[p] /\ ppc[q] \in Underway => owner[CloneOf[p]] = q
      /\ owner \in [Clones -> Publications \cup {Nobody}] /\ CloneOf[p] \in Clones
  BY PublisherAssumption DEF PubInv, PubTypeOK
<1>2. Nobody \notin Publications
  BY PublisherAssumption DEF Nobody
<1>3. CASE Begin(p)
  BY <1>1, <1>2, <1>3 DEF Begin, Moved, Underway
<1>4. ASSUME owner[CloneOf[p]] = p
      PROVE  /\ \A pc : pc \in Underway /\ Goes(p, pc) => Moved(p, pc)
             /\ \A pc : pc \notin Underway /\ Ends(p, pc) => Moved(p, pc)
  <2>1. owner = [owner EXCEPT ![CloneOf[p]] = p]
    BY <1>1, <1>4
  <2> QED BY <1>1, <1>4, <2>1 DEF Goes, Ends, Unlock, Moved
<1>5. CASE Fail(p)
  BY <1>4, <1>5 DEF Fail, Underway
<1>6. CASE Refuse(p) \/ Check(p) \/ Write(p) \/ CommitEvent(p) \/ NothingToPush(p) \/ Push(p)
           \/ PushRejected(p) \/ EnsurePr(p)
  <2>1. owner[CloneOf[p]] = p
    BY <1>1, <1>6 DEF Refuse, Check, Write, CommitEvent, NothingToPush, Push, PushRejected,
                      EnsurePr, At, Underway
  <2>2. /\ \A pc \in {"write", "resume", "commit", "push", "pr"} : Goes(p, pc) => Moved(p, pc)
        /\ \A pc \in {"idle", "collision", "ok"} : Ends(p, pc) => Moved(p, pc)
    BY <1>4, <2>1 DEF Underway
  <2> QED BY <1>6, <2>2 DEF Refuse, Check, Write, CommitEvent, NothingToPush, Push, PushRejected,
                            EnsurePr, AfterPush, At
<1> QED BY <1>3, <1>5, <1>6 DEF PubStep

LEMMA PubTypeStep ==
  ASSUME PubInv, [PubNext]_pubVars
  PROVE  PubTypeOK'
<1>1. PubTypeOK /\ remote' \in Seq(Entries) /\ 0 \in Nat
  BY RemoteStep DEF PubInv
<1>2. CASE UNCHANGED pubVars
  BY <1>1, <1>2 DEF pubVars, repo, PubTypeOK
<1>3. ASSUME NEW p \in Publications, PubStep(p) \/ Fail(p) PROVE PubTypeOK'
  <2>1. CloneOf[p] \in Clones /\ Entry(p) \in Entries
    BY PublisherAssumption, EntriesOK
  <2>2. /\ ppc' \in [Publications -> {"idle", "check", "write", "commit", "push", "resume", "pr",
                                      "ok", "collision"}]
        /\ owner' \in [Clones -> Publications \cup {Nobody}]
    <3>1. PICK pc \in {"idle", "check", "write", "commit", "push", "resume", "pr", "ok", "collision"} :
             Moved(p, pc)
      BY <1>3, StepMoves
    <3> QED BY <1>1, <3>1 DEF Moved, PubTypeOK
  <2>3. failures' \in Nat /\ pr' \in BOOLEAN
    <3>1. failures' = failures \/ failures' = failures + 1
      BY <1>3 DEF PubStep, Fail
    <3>2. pr' = pr \/ pr' = TRUE
      BY <1>3 DEF PubStep, Fail, repo, Begin, Refuse, Check, Write, CommitEvent, NothingToPush,
                  Push, PushRejected, EnsurePr
    <3>3. failures \in Nat /\ pr \in BOOLEAN
      BY <1>1 DEF PubTypeOK
    <3>4. failures' \in Nat
      BY <3>1, <3>3
    <3>5. pr' \in BOOLEAN
      BY <3>2, <3>3
    <3> QED BY <3>4, <3>5
  <2>4. dirty' \in [Clones -> SUBSET Entries]
    <3>1. \/ dirty' = dirty \/ dirty' = [dirty EXCEPT ![CloneOf[p]] = {Entry(p)}]
          \/ dirty' = [dirty EXCEPT ![CloneOf[p]] = Clean]
      BY <1>3 DEF PubStep, Fail, repo, Begin, Refuse, Check, Write, CommitEvent, NothingToPush,
                  Push, PushRejected, EnsurePr
    <3>2. {Entry(p)} \in SUBSET Entries /\ Clean \in SUBSET Entries
      BY <2>1 DEF Clean
    <3> QED BY <1>1, <3>1, <3>2 DEF PubTypeOK
  <2>5. log' \in [Clones -> Seq(Entries)]
    <3>1. Append(log[CloneOf[p]], Entry(p)) \in Seq(Entries)
      BY <1>1, <2>1, AppendProperties DEF PubTypeOK
    <3>2. log' = log \/ log' = [log EXCEPT ![CloneOf[p]] = Append(log[CloneOf[p]], Entry(p))]
      BY <1>1, <1>3, <2>1
         DEF PubTypeOK, PubStep, Fail, repo, Begin, Refuse, Check, Write, CommitEvent,
             NothingToPush, Push, PushRejected, EnsurePr
    <3> QED BY <1>1, <3>1, <3>2 DEF PubTypeOK
  <2>6. origin' \in [Clones -> Seq(Entries)]
    <3>1. \/ origin' = origin \/ origin' = [origin EXCEPT ![CloneOf[p]] = remote]
          \/ origin' = [origin EXCEPT ![CloneOf[p]] = remote']
      BY <1>3 DEF PubStep, Fail, repo, Begin, Refuse, Check, Write, CommitEvent, NothingToPush,
                  Push, PushRejected, EnsurePr
    <3> QED BY <1>1, <3>1 DEF PubTypeOK
  <2> QED BY <1>1, <2>2, <2>3, <2>4, <2>5, <2>6 DEF PubTypeOK
<1> QED BY <1>2, <1>3 DEF PubNext

\* The branch of a clone stays, or tells of one event more.
LEMMA LogStep ==
  ASSUME PubInv, [PubNext]_pubVars, NEW c \in Clones
  PROVE  \/ log'[c] = log[c]
         \/ \E p \in Publications : CommitEvent(p) /\ c = CloneOf[p] /\ log'[c] = Append(log[c], Entry(p))
<1>1. CASE UNCHANGED pubVars
  BY <1>1 DEF pubVars, repo
<1>2. CASE \E p \in Publications : CommitEvent(p)
  <2>1. PICK p \in Publications : CommitEvent(p)
    BY <1>2
  <2>2. log' = [log EXCEPT ![CloneOf[p]] = Append(log[CloneOf[p]], Entry(p))] /\ log \in [Clones -> Seq(Entries)]
    BY <2>1 DEF CommitEvent, PubInv, PubTypeOK
  <2>3. CASE c = CloneOf[p]
    BY <2>1, <2>2, <2>3
  <2>4. CASE c # CloneOf[p]
    BY <2>2, <2>4
  <2> QED BY <2>3, <2>4
<1>3. CASE \E p \in Publications : (PubStep(p) /\ ~CommitEvent(p)) \/ Fail(p)
  <2>1. UNCHANGED log
    BY <1>3 DEF PubStep, Fail, repo, Begin, Refuse, Check, Write, NothingToPush, Push, PushRejected, EnsurePr
  <2> QED BY <2>1
<1> QED BY <1>1, <1>2, <1>3 DEF PubNext

LEMMA PubInvStep ==
  ASSUME PubInv, [PubNext]_pubVars
  PROVE  PubInv'
<1>1. /\ PubTypeOK' /\ remote' \in Seq(Entries) /\ Once(remote')
      /\ \A e : Tells(remote, e) => Tells(remote', e)
      /\ \A c \in Clones : Extends(origin[c], remote')
  BY PubTypeStep, RemoteStep
<1>2. /\ \A c \in Clones : log[c] \in Seq(Entries) /\ Len(log[c]) \in Nat /\ Once(log[c])
      /\ CloneOf \in [Publications -> Clones]
      /\ \A p \in Publications : Entry(p).event = EventOf[p]
  BY PublisherAssumption, EntriesOK, LenProperties DEF PubInv, PubTypeOK
<1>3. \A p \in Publications : Exists(p) <=> \E i \in 1..Len(log[CloneOf[p]]) : log[CloneOf[p]][i].event = EventOf[p]
  BY <1>2, LenProperties DEF Exists
<1>4. ASSUME NEW p \in Publications, CommitEvent(p)
      PROVE  LET l == log[CloneOf[p]]
                 k == log'[CloneOf[p]]
             IN  /\ Len(k) = Len(l) + 1 /\ k[Len(l) + 1] = Entry(p)
                 /\ \A i \in 1..Len(l) : k[i] = l[i]
                 /\ \A i \in 1..Len(l) : l[i].event # EventOf[p]
  <2>1. log'[CloneOf[p]] = Append(log[CloneOf[p]], Entry(p)) /\ ppc[p] = "commit"
    BY <1>2, <1>4 DEF CommitEvent, At, PubInv, PubTypeOK
  <2>2. ~Exists(p)
    BY <2>1 DEF PubInv
  <2>3. Entry(p) \in Entries /\ log[CloneOf[p]] \in Seq(Entries)
    BY <1>2, EntriesOK
  <2> QED BY <1>3, <2>1, <2>2, <2>3, AppendProperties
<1>5. \A c \in Clones : Once(log[c])'
  <2> SUFFICES ASSUME NEW c \in Clones PROVE Once(log'[c])
    BY DEF Once
  <2>1. CASE log'[c] = log[c]
    BY <1>2, <2>1
  <2>2. ASSUME NEW p \in Publications, CommitEvent(p), c = CloneOf[p] PROVE Once(log'[c])
    <3>1. Entry(p).event = EventOf[p] /\ Len(log[c]) \in Nat /\ Once(log[c])
      BY <1>2
    <3> DEFINE l == log[c]
               k == log'[c]
    <3>2. /\ Len(k) = Len(l) + 1 /\ k[Len(l) + 1].event = EventOf[p]
          /\ \A i \in 1..Len(l) : k[i] = l[i] /\ l[i].event # EventOf[p]
      BY <1>4, <2>2, <3>1
    <3>3. \A i, j \in 1..Len(l) : l[i].event = l[j].event => i = j
      BY <3>1 DEF Once
    <3> HIDE DEF l, k
    <3>4. Len(l) \in Nat
      BY <3>1 DEF l
    <3>5. Once(k)
      BY <3>2, <3>3, <3>4 DEF Once
    <3> QED BY <3>5 DEF k
  <2> QED BY <2>1, <2>2, LogStep
<1>6. \A c \in Clones : Made(log[c], c)'
  <2> SUFFICES ASSUME NEW c \in Clones PROVE Made(log'[c], c)
    BY DEF Made
  <2>1. Made(log[c], c) /\ Len(log[c]) \in Nat
    BY <1>2 DEF PubInv
  <2>2. ASSUME NEW p \in Publications, CommitEvent(p), c = CloneOf[p] PROVE Made(log'[c], c)
    <3>1. /\ Len(log'[c]) = Len(log[c]) + 1 /\ log'[c][Len(log[c]) + 1] = Entry(p)
          /\ \A i \in 1..Len(log[c]) : log'[c][i] = log[c][i]
      BY <1>4, <2>2
    <3>2. Entry(p).clone = c
      BY <2>2 DEF Entry
    <3>3. \A i \in 1..Len(log'[c]) : i \in 1..Len(log[c]) \/ i = Len(log[c]) + 1
      BY <2>1, <3>1
    <3> QED BY <2>1, <3>1, <3>2, <3>3 DEF Made
  <2> QED BY <2>1, <2>2, LogStep
<1>7. \A c \in Clones : \A e : Tells(log[c], e) => Tells(log'[c], e)
  <2> SUFFICES ASSUME NEW c \in Clones, NEW e, Tells(log[c], e) PROVE Tells(log'[c], e)
    OBVIOUS
  <2>1. ASSUME NEW p \in Publications, CommitEvent(p), c = CloneOf[p] PROVE Tells(log'[c], e)
    BY <1>2, <1>4, <2>1 DEF Tells
  <2> QED BY <2>1, LogStep
<1>8. \A c \in Clones : Extends(origin[c], remote)'
  <2> SUFFICES ASSUME NEW c \in Clones PROVE Extends(origin'[c], remote')
    BY DEF Extends
  <2>1. origin'[c] \in {origin[c], remote, remote'}
    <3>1. origin' = origin \/ \E d : \/ origin' = [origin EXCEPT ![d] = remote]
                                     \/ origin' = [origin EXCEPT ![d] = remote']
      <4>1. CASE UNCHANGED pubVars
        BY <4>1 DEF pubVars, repo
      <4>2. ASSUME NEW p \in Publications, PubStep(p) \/ Fail(p)
            PROVE  \/ origin' = origin \/ origin' = [origin EXCEPT ![CloneOf[p]] = remote]
                   \/ origin' = [origin EXCEPT ![CloneOf[p]] = remote']
        BY <4>2 DEF PubStep, Fail, repo, Begin, Refuse, Check, Write, CommitEvent, NothingToPush,
                    Push, PushRejected, EnsurePr
      <4> QED BY <4>1, <4>2 DEF PubNext
    <3> QED BY <3>1 DEF PubInv, PubTypeOK
  <2>2. Extends(remote, remote') /\ Extends(remote', remote')
    <3>1. Len(remote') \in Nat
      BY <1>1, LenProperties
    <3> QED BY <3>1, RemoteStep DEF Extends
  <2> QED BY <1>1, <2>1, <2>2
<1>9. ASSUME NEW q \in Publications
      PROVE  /\ ppc'[q] \in Underway => owner'[CloneOf[q]] = q
             /\ ppc'[q] \in {"write", "commit"} => ~Exists(q)'
             /\ ppc'[q] \in {"push", "resume"} => Tells(log'[CloneOf[q]], Entry(q))
             /\ ppc'[q] \in {"pr", "ok"} /\ q \in Pushes => Tells(remote', Entry(q))
  <2>1. /\ ppc[q] \in Underway => owner[CloneOf[q]] = q
        /\ ppc[q] \in {"write", "commit"} => ~Exists(q)
        /\ ppc[q] \in {"push", "resume"} => Tells(log[CloneOf[q]], Entry(q))
        /\ ppc[q] \in {"pr", "ok"} /\ q \in Pushes => Tells(remote, Entry(q))
    BY DEF PubInv
  <2>2. CloneOf[q] \in Clones
    BY <1>2
  <2>3. log'[CloneOf[q]] = log[CloneOf[q]] => Exists(q)' = Exists(q)
    BY DEF Exists
  <2>4. CASE UNCHANGED pubVars
    BY <2>1, <2>3, <2>4 DEF pubVars, repo
  <2>5. ASSUME NEW p \in Publications, PubStep(p) \/ Fail(p), p # q
        PROVE  /\ ppc'[q] = ppc[q]
               /\ ppc[q] \in Underway => owner'[CloneOf[q]] = q /\ log'[CloneOf[q]] = log[CloneOf[q]]
    <3>1. PICK pc : Moved(p, pc)
      BY <2>5, StepMoves
    <3>2. ppc'[q] = ppc[q]
      BY <2>5, <3>1 DEF Moved, PubInv, PubTypeOK
    <3>3. ASSUME ppc[q] \in Underway PROVE CloneOf[q] # CloneOf[p]
      BY <2>5, <3>1, <3>3 DEF Moved
    <3>4. CloneOf[q] # CloneOf[p] => owner'[CloneOf[q]] = owner[CloneOf[q]]
      BY <2>2, <3>1 DEF Moved, PubInv, PubTypeOK
    <3>5. CloneOf[q] # CloneOf[p] => log'[CloneOf[q]] = log[CloneOf[q]]
      BY <2>2, <2>5 DEF PubInv, PubTypeOK, PubStep, Fail, repo, Begin, Refuse, Check, Write,
                        CommitEvent, NothingToPush, Push, PushRejected, EnsurePr
    <3> QED BY <2>1, <3>2, <3>3, <3>4, <3>5
  <2>6. ASSUME NEW p \in Publications, PubStep(p) \/ Fail(p), p # q
        PROVE  /\ ppc'[q] \in Underway => owner'[CloneOf[q]] = q
               /\ ppc'[q] \in {"write", "commit"} => ~Exists(q)'
               /\ ppc'[q] \in {"push", "resume"} => Tells(log'[CloneOf[q]], Entry(q))
               /\ ppc'[q] \in {"pr", "ok"} /\ q \in Pushes => Tells(remote', Entry(q))
    BY <1>1, <2>1, <2>3, <2>5, <2>6 DEF Underway
  <2>7. ASSUME PubStep(q) \/ Fail(q)
        PROVE  /\ ppc'[q] \in Underway => owner'[CloneOf[q]] = q
               /\ ppc'[q] \in {"write", "commit"} => ~Exists(q)'
               /\ ppc'[q] \in {"push", "resume"} => Tells(log'[CloneOf[q]], Entry(q))
               /\ ppc'[q] \in {"pr", "ok"} /\ q \in Pushes => Tells(remote', Entry(q))
    <3>1. ASSUME NEW pc, Moved(q, pc)
          PROVE  ppc'[q] = pc /\ (pc \in Underway => owner'[CloneOf[q]] = q)
      BY <2>2, <3>1 DEF Moved, PubInv, PubTypeOK
    <3>2. CASE (Begin(q) /\ Moved(q, "check")) \/ Moved(q, "idle") \/ Moved(q, "collision")
      BY <3>1, <3>2 DEF Underway
    <3>3. CASE Check(q) /\ ~Exists(q) /\ Moved(q, "write")
      BY <2>3, <3>1, <3>3 DEF Check, Underway
    <3>4. CASE Check(q) /\ Exists(q) /\ ~Collides(q) /\ Moved(q, "resume")
      <4>1. PICK i \in 1..Len(log[CloneOf[q]]) : log[CloneOf[q]][i].event = EventOf[q]
        BY <1>3, <3>4
      <4>2. log[CloneOf[q]][i] \in ToSet(log[CloneOf[q]])
        BY <1>2, <2>2, <4>1, LenProperties DEF ToSet
      <4>3. log[CloneOf[q]][i].payload = PayloadOf[q]
        BY <3>4, <4>1, <4>2 DEF Collides
      <4>4. log[CloneOf[q]][i].clone = CloneOf[q]
        BY <2>2, <4>1 DEF PubInv, Made
      <4>5. log[CloneOf[q]][i] \in Entries
        BY <1>2, <2>2, <4>1, ElementOfSeq
      <4>6. log[CloneOf[q]][i] = Entry(q)
        <5>1. PICK r \in Publications : log[CloneOf[q]][i] = Entry(r)
          BY <4>5 DEF Entries
        <5>2. EventOf[r] = EventOf[q] /\ PayloadOf[r] = PayloadOf[q] /\ CloneOf[r] = CloneOf[q]
          BY <4>1, <4>3, <4>4, <5>1 DEF Entry
        <5> QED BY <5>1, <5>2 DEF Entry
      <4> QED BY <3>1, <3>4, <4>1, <4>6 DEF Check, Underway, Tells
    <3>5. CASE Write(q) /\ Moved(q, "commit")
      BY <2>1, <2>3, <3>1, <3>5 DEF Write, Underway, At
    <3>6. CASE CommitEvent(q) /\ Moved(q, "push")
      <4>1. Tells(log'[CloneOf[q]], Entry(q))
        BY <1>2, <1>4, <2>2, <3>6 DEF Tells
      <4> QED BY <3>1, <3>6, <4>1 DEF Underway
    <3>7. CASE (NothingToPush(q) \/ Push(q)) /\ (Moved(q, "pr") \/ Moved(q, "ok"))
      <4>1. ASSUME q \in Pushes PROVE Tells(remote', Entry(q))
        <5>1. CASE Push(q)
          BY <5>1, PushedIs DEF Push
        <5>2. CASE NothingToPush(q)
          <6>1. ppc[q] \in {"push", "resume"} /\ Reachable(q) /\ remote' = remote
            BY <4>1, <5>2 DEF NothingToPush, MustPush, repo
          <6>2. PICK i : Is(log[CloneOf[q]], i, Entry(q))
            BY <2>1, <6>1 DEF Tells, Is
          <6>3. Commit(q) \in Seq(Entries) /\ Is(Commit(q), i, Entry(q))
            BY <1>2, <2>2, <6>2, CommitIs
          <6>4. origin[CloneOf[q]] \in Seq(Entries) /\ Extends(origin[CloneOf[q]], remote)
                /\ remote \in Seq(Entries)
            BY <2>2 DEF PubInv, PubTypeOK
          <6>5. Extends(Commit(q), origin[CloneOf[q]])
            BY <6>1, <6>3, <6>4, PrefixMeans DEF Reachable
          <6>6. Len(Commit(q)) \in Nat /\ Len(origin[CloneOf[q]]) \in Nat /\ Len(remote) \in Nat
            BY <6>3, <6>4, LenProperties
          <6>7. Is(remote, i, Entry(q))
            <7>1. i \in 1..Len(Commit(q)) /\ Commit(q)[i] = Entry(q)
              BY <6>3 DEF Is
            <7>2. i \in 1..Len(origin[CloneOf[q]]) /\ origin[CloneOf[q]][i] = Entry(q)
              BY <6>5, <6>6, <7>1 DEF Extends
            <7> QED BY <6>4, <6>6, <7>2 DEF Is, Extends
          <6> QED BY <6>1, <6>7 DEF Tells, Is
        <5> QED BY <3>7, <5>1, <5>2
      <4> QED BY <3>1, <3>7, <4>1 DEF Underway
    <3>8. CASE EnsurePr(q) /\ ppc[q] = "pr" /\ Moved(q, "ok")
      BY <1>1, <2>1, <3>1, <3>8 DEF Underway
    <3> QED BY <2>7, <3>2, <3>3, <3>4, <3>5, <3>6, <3>7, <3>8, StepMoves
  <2> QED BY <2>4, <2>6, <2>7 DEF PubNext
<1> QED BY <1>1, <1>5, <1>8, <1>9, <1>6 DEF PubInv, Once, Extends, Tells, Entry, Made

LEMMA PubInvCorrect == PubSpec => []PubInv
<1>1. PubInit => PubInv
  <2> SUFFICES ASSUME PubInit PROVE PubInv
    OBVIOUS
  <2>1. <<>> \in Seq(Entries) /\ Len(<<>>) = 0
    BY EmptySeq
  <2>2. Once(<<>>) /\ Extends(<<>>, <<>>) /\ \A c \in Clones : Made(<<>>, c)
    BY <2>1 DEF Once, Extends, Made
  <2>3. PubTypeOK
    BY <2>1 DEF PubInit, PubTypeOK, Clean
  <2> QED BY <2>2, <2>3 DEF PubInit, PubInv, Underway
<1>2. PubInv /\ [PubNext]_pubVars => PubInv'
  BY PubInvStep
<1> QED BY <1>1, <1>2, PTL DEF PubSpec

\* Every variable keeps its shape.
THEOREM PublisherTypeCorrect == PubSpec => []PubTypeOK
<1>1. PubInv => PubTypeOK
  BY DEF PubInv
<1> QED BY <1>1, PubInvCorrect, PTL

\* Retries, other clones and pushes of unknown outcome never tell of an event twice.
THEOREM EventsAreToldOnce == PubSpec => []EventOnce
<1>1. PubInv => EventOnce
  <2> SUFFICES ASSUME PubInv PROVE EventOnce
    OBVIOUS
  <2>1. DOMAIN remote = 1..Len(remote) /\ Once(remote)
    BY LenProperties DEF PubInv, PubTypeOK
  <2> QED BY <2>1 DEF EventOnce, Once
<1> QED BY <1>1, PubInvCorrect, PTL

\* A reported success is on the remote branch, with its own content.
THEOREM SuccessesArePushed == PubSpec => []SuccessIsPushed
<1>1. PubInv => SuccessIsPushed
  <2> SUFFICES ASSUME PubInv, NEW p \in Publications, ppc[p] = "ok", p \in Pushes
               PROVE  Entry(p) \in ToSet(remote)
    BY DEF SuccessIsPushed, At
  <2>1. DOMAIN remote = 1..Len(remote) /\ Tells(remote, Entry(p))
    BY LenProperties DEF PubInv, PubTypeOK
  <2> QED BY <2>1 DEF Tells, ToSet
<1> QED BY <1>1, PubInvCorrect, PTL
=============================================================================
