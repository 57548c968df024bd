---------------------------- MODULE V2ReadProofs ----------------------------
(***************************************************************************)
(* Proofs about the reads a run records: what they found, and which value  *)
(* the version they recorded stands for.                                   *)
(***************************************************************************)
EXTENDS V2StoreProofs

-----------------------------------------------------------------------------
(***************************************************************************)
(* The read log.  A version (writer, incarnation) names one value for      *)
(* ever: that is what comparing versions in storeReadMatches relies on.    *)
(***************************************************************************)

\* A recorded read: what it found, and that the version it recorded, if it is
\* the current one of its writer, has the value it recorded.
DescInv(d, i) ==
    /\ d.rq \in Requests /\ d.inc \in 0 .. 1
    /\ d.rq.cell \in Keys =>
        \/ d.writer = -1 /\ d.inc = 0 /\ d.val = Default(d.rq) /\ ~d.exact
        \/ /\ d.writer \in 0 .. (i - 1) /\ d.val # Nil
           /\ d.exact <=> (d.rq.cell \in Markers \/ d.rq.after >= 0)
           /\ d.inc <= incarnations[d.writer]
           /\ d.inc = incarnations[d.writer] =>
                /\ pdb[d.writer].done
                /\ Published(pdb[d.writer].out, d.rq.cell) = d.val

\* The local states of a run are chained by its reads.
RunInv(p, s) ==
    LET visited == {d.loc : d \in s.reads} \cup {s.loc}
    IN  /\ Start(p) \in visited
        /\ \A d \in s.reads : /\ d.rq = NextRead(p, d.loc)
                              /\ Step(p, d.loc, Obs(d)) \in visited
        /\ s.done => s.loc \in Ends(p) /\ s.out = Output(p, s.loc)

LogInv(i) ==
    /\ RunInv(Prog(i), pdb[i]) /\ RunInv(Prog(i), states[i])
    /\ ~cancelled => \A d \in pdb[i].reads \cup states[i].reads : DescInv(d, i)

\* No run has recorded a read when the goroutines start.
LEMMA LogInit ==
    ASSUME Init, NEW i \in Tx
    PROVE  LogInv(i)
<1>1. pdb[i] = NewPDB(Prog(i), 0) /\ states[i] = NewPDB(Prog(i), 0)
  BY Zenon DEF Init
<1>2. RunInv(Prog(i), NewPDB(Prog(i), 0))
  BY Zenon DEF RunInv, NewPDB
<1>3. NewPDB(Prog(i), 0).reads = {}
  BY Zenon DEF NewPDB
<1> QED BY <1>1, <1>2, <1>3, Zenon DEF LogInv

\* An entry that is not an ESTIMATE is of the current incarnation.
LEMMA CurrentVersion ==
    ASSUME EstimateInv, ContentInv, ~cancelled, NEW j \in Tx, NEW k \in Keys,
           mv[k][j].there, ~mv[k][j].est
    PROVE  /\ mv[k][j].inc = incarnations[j] /\ pdb[j].done
           /\ mv[k][j].val = Published(pdb[j].out, k) /\ mv[k][j].val # Nil
<1>1. KeyInv(j, k) /\ PublishInv(j)
  BY Zenon DEF ContentInv, EstimateInv, QueueInv
<1>2. pc[j] \in BeforeFlush \cup {"flush", "cleanup", "done"}
  BY Zenon DEF EstimateInv, TypeInv, TypeOK, BeforeFlush, Running
<1>3. ASSUME NEW s, NEW n, mv[k][j] = EntryOf(s, n, k, FALSE)
      PROVE  mv[k][j].inc = n /\ mv[k][j].val = Published(s.out, k) /\ mv[k][j].val # Nil
  BY <1>3 DEF EntryOf, Absent, Published
<1>4. ASSUME mv[k][j] = Prior(j, k) PROVE FALSE
  BY <1>4 DEF Prior, EntryOf, Absent
<1>5. CASE pc[j] \in BeforeFlush
  BY <1>1, <1>4, <1>5, Zenon DEF KeyInv
<1>6. CASE pc[j] = "flush"
  <2>1. mv[k][j] = EntryOf(pdb[j], incarnations[j], k, FALSE) /\ pdb[j].done
    BY <1>1, <1>4, <1>6, Zenon DEF KeyInv, PublishInv
  <2> QED BY <1>3, <2>1, Zenon
<1>7. CASE pc[j] \in {"cleanup", "done"}
  <2>1. states[j] = pdb[j] /\ pdb[j].done
    BY <1>1, <1>7, Zenon DEF PublishInv
  <2>2. mv[k][j] = EntryOf(pdb[j], incarnations[j], k, FALSE)
    <3>4. mv[k][j] # Absent
      BY DEF Absent
    <3>1. CASE pc[j] = "cleanup"
      BY <1>1, <2>1, <3>1, <3>4, Zenon DEF KeyInv
    <3>2. CASE pc[j] = "done" /\ ~Marking(j)
      BY <1>1, <2>1, <3>2, Zenon DEF KeyInv
    <3>3. CASE pc[j] = "done" /\ Marking(j)
      <4>1. mv[k][j] = EntryOf(pdb[j], incarnations[j], k, k \notin todo[j])
        BY <1>1, <2>1, <3>3, Zenon DEF KeyInv
      <4>2. CASE k \in todo[j]
        BY <4>1, <4>2, Zenon DEF EntryOf
      <4>3. CASE k \notin todo[j]
        <5>1. (k \notin todo[j]) = TRUE
          BY <4>3, Zenon
        <5>2. mv[k][j] = EntryOf(pdb[j], incarnations[j], k, TRUE)
          BY <4>1, <5>1, Zenon
        <5>3. mv[k][j].est
          BY <3>4, <5>2 DEF EntryOf
        <5> QED BY <5>3, Zenon
      <4> QED BY <4>2, <4>3, Zenon
    <3> QED BY <1>7, <3>1, <3>2, <3>3, Zenon
  <2> QED BY <1>3, <2>1, <2>2, Zenon
<1> QED BY <1>2, <1>5, <1>6, <1>7, Zenon

\* A step keeps the current version of a transaction, or nobody can have read
\* it yet, or it makes it old.
LEMMA VersionStep ==
    ASSUME EstimateInv, [Next]_vars, NEW w \in Tx
    PROVE  \/ pdb'[w] = pdb[w] /\ incarnations'[w] = incarnations[w]
           \/ ~pdb[w].done /\ incarnations'[w] = incarnations[w]
           \/ incarnations[w] = 0 /\ incarnations'[w] = 1
<1>1. /\ DOMAIN pdb = Tx /\ DOMAIN incarnations = Tx /\ TypeInv /\ ControlInv /\ OutcomeInv(w)
  BY Zenon DEF EstimateInv, TypeInv, TypeOK, PDBTypeOK
<1> USE DEF execVars, ctxVars
<1>2. CASE RowSame(w)
  BY <1>2, Zenon DEF RowSame
<1>3. CASE Dispatch \/ TakeTask
  BY <1>3, Zenon DEF Dispatch, TakeTask
<1>4. CASE Read(w)
  BY <1>1, <1>4, Zenon DEF Read, OutcomeInv, BeforeFlush
<1>5. CASE Finish(w)
  BY <1>1, <1>5, Zenon DEF Finish, OutcomeInv, BeforeFlush
<1>6. ASSUME Execute(w), ~Read(w), ~Finish(w) PROVE UNCHANGED <<pdb, incarnations>>
  BY <1>6, Zenon DEF Execute, PassPrev, PassChain, AbortExecute, FlushEnd, Return, Flush, Cleanup, CleanupEnd
<1>7. CASE ValidateFail \/ Mark
  BY <1>7, Zenon DEF ValidateFail, Mark
<1>8. CASE LaunchReexec /\ w = vi
  <2>1. incarnations[vi] = 0
    BY <1>1, <1>8, MarkedTask, Zenon DEF LaunchReexec
  <2> QED BY <1>1, <1>8, <2>1 DEF LaunchReexec
<1> QED BY <1>1, <1>2, <1>3, <1>4, <1>5, <1>6, <1>7, <1>8, OneRow, Zenon

\* A recorded read stays well-formed: versions only move on.
LEMMA DescStep ==
    ASSUME EstimateInv, [Next]_vars, NEW i \in Tx, NEW d, DescInv(d, i)
    PROVE  DescInv(d, i)'
<1>1. CASE ~(d.rq.cell \in Keys /\ d.writer \in 0 .. (i - 1))
  BY <1>1, Zenon DEF DescInv
<1>2. CASE d.rq.cell \in Keys /\ d.writer \in 0 .. (i - 1)
  <2> DEFINE w == d.writer
  <2>1. w \in Tx /\ w # -1
    BY <1>2, TransactionsAssumption DEF Tx, TransactionsAssumption
  <2>2. /\ d.inc \in 0 .. 1 /\ d.inc <= incarnations[w] /\ incarnations[w] \in 0 .. 1
        /\ d.inc = incarnations[w] => pdb[w].done /\ Published(pdb[w].out, d.rq.cell) = d.val
    BY <1>2, <2>1, Zenon DEF DescInv, EstimateInv, TypeInv, TypeOK
  <2>3. /\ d.inc <= incarnations'[w]
        /\ d.inc = incarnations'[w] => pdb'[w].done /\ Published(pdb'[w].out, d.rq.cell) = d.val
    BY <2>1, <2>2, VersionStep
  <2> QED BY <1>2, <2>1, <2>3, Zenon DEF DescInv
<1> QED BY <1>1, <1>2, Zenon

\* No step changes the tasks.
LEMMA BlockFixed ==
    ASSUME [Next]_vars
    PROVE  block' = block
BY Zenon DEF vars, Next, Dispatch, DispatchStops, TakeTask, Execute, PassPrev, PassChain,
       AbortExecute, Return, Read, Finish, Flush, FlushEnd, Cleanup, CleanupEnd, Validator,
       FinishReexec, ValidatePass, ValidateFail, Mark, LaunchReexec, ValidationDrained,
       ValidationCancelled, ValidationPanics, Settle, Cancel, ReturnResult

\* What a step does to the runs of transaction i.
LEMMA RunStep ==
    ASSUME EstimateInv, [Next]_vars, NEW i \in Tx
    PROVE  \/ pdb'[i] = pdb[i] /\ states'[i] \in {states[i], pdb[i]}
           \/ Read(i) \/ Finish(i)
           \/ LaunchReexec /\ i = vi
<1>1. /\ DOMAIN pdb = Tx /\ DOMAIN states = Tx /\ TypeInv /\ ControlInv
  BY Zenon DEF EstimateInv, TypeInv, TypeOK, PDBTypeOK
<1> USE DEF execVars, ctxVars
<1>2. CASE RowSame(i)
  BY <1>2, Zenon DEF RowSame
<1>3. CASE Dispatch \/ TakeTask
  BY <1>3, Zenon DEF Dispatch, TakeTask
<1>4. ASSUME Execute(i), ~Read(i), ~Finish(i)
      PROVE  pdb' = pdb /\ (states' = states \/ states' = [states EXCEPT ![i] = states[i]]
                              \/ states' = [states EXCEPT ![i] = pdb[i]])
  BY <1>4, Zenon DEF Execute, PassPrev, PassChain, AbortExecute, FlushEnd, Return, Flush, Cleanup, CleanupEnd
<1>5. CASE ValidateFail \/ Mark
  BY <1>5, Zenon DEF ValidateFail, Mark
<1> QED BY <1>1, <1>2, <1>3, <1>4, <1>5, OneRow, Zenon

\* What readStoreWait records of an entry, or of the lack of one.
LEMMA StoreReadFields ==
    ASSUME NEW rq, NEW l, NEW r
    PROVE  /\ StoreRead(rq, l, r).rq = rq /\ StoreRead(rq, l, r).loc = l
           /\ r.est \/ r = NotFound =>
                /\ StoreRead(rq, l, r).writer = -1 /\ StoreRead(rq, l, r).inc = 0
                /\ StoreRead(rq, l, r).val = Default(rq) /\ ~StoreRead(rq, l, r).exact
           /\ ~r.est /\ r.found =>
                /\ StoreRead(rq, l, r).writer = r.writer /\ StoreRead(rq, l, r).inc = r.inc
                /\ StoreRead(rq, l, r).val = r.val
                /\ StoreRead(rq, l, r).exact <=> (rq.cell \in Markers \/ rq.after >= 0)
<1>1. ASSUME NEW f, f.found = FALSE PROVE ~(f.found /\ (rq.cell \in Markers \/ rq.after >= 0))
  BY <1>1, Zenon
<1>2. NotFound.found = FALSE /\ NotFound.writer = -1 /\ NotFound.inc = 0
  BY Zenon DEF NotFound
<1> DEFINE d      == StoreRead(rq, l, r)
           eff    == IF r.est THEN NotFound ELSE r
           exact  == eff.found /\ (rq.cell \in Markers \/ rq.after >= 0)
<1>3. /\ d.loc = l /\ d.rq = rq /\ d.writer = eff.writer /\ d.inc = eff.inc
      /\ d.val = IF eff.found THEN eff.val ELSE Default(rq)
      /\ d.exact = exact
  <2>1. d = [loc |-> l, rq |-> rq, writer |-> eff.writer, inc |-> eff.inc,
             val |-> IF eff.found THEN eff.val ELSE Default(rq), exact |-> exact]
    BY Zenon DEF StoreRead
  <2> HIDE DEF d, eff, exact
  <2> QED BY <2>1, Zenon
<1>4. CASE r.est \/ r = NotFound
  <2>1. eff = NotFound
    BY <1>4, Zenon
  <2>2. eff.writer = -1 /\ eff.inc = 0 /\ eff.found = FALSE
    BY <1>2, <2>1, Zenon
  <2>3. exact = FALSE
    BY <2>2, Zenon
  <2>4. d.exact = FALSE
    BY <1>3, <2>3, Zenon
  <2>5. ~(~r.est /\ r.found)
    BY <1>2, <1>4, Zenon
  <2> HIDE DEF d, eff, exact
  <2>6. d.writer = -1 /\ d.inc = 0 /\ d.val = Default(rq)
    BY <1>3, <2>2, Zenon
  <2> QED BY <1>3, <2>4, <2>5, <2>6, Zenon DEF d
<1>5. CASE ~r.est /\ r.found /\ r # NotFound
  <2>1. eff = r
    BY <1>5, Zenon
  <2>2. exact <=> (rq.cell \in Markers \/ rq.after >= 0)
    BY <1>5, <2>1, Zenon
  <2>3. d.exact <=> exact
    BY <1>3, Zenon
  <2> HIDE DEF d, eff, exact
  <2>4. d.writer = r.writer /\ d.inc = r.inc /\ d.val = r.val
    BY <1>3, <1>5, <2>1, Zenon
  <2> QED BY <1>3, <1>5, <2>2, <2>3, <2>4, Zenon DEF d
<1>6. CASE ~(r.est \/ r = NotFound) /\ ~r.found
  BY <1>3, <1>6, Zenon
<1> QED BY <1>4, <1>5, <1>6, Zenon

\* The read a run records.
LEMMA ReadDesc ==
    ASSUME EstimateInv, ContentInv, ~cancelled, NEW i \in Tx, NEW l, NEW rq \in Requests
    PROVE  /\ rq.cell \in Addrs => DescInv(BalanceRead(rq, l, i), i)
           /\ rq.cell \in Keys => DescInv(StoreRead(rq, l, ReadVersionFull(rq.cell, i)), i)
<1>1. CASE rq.cell \in Addrs
  BY <1>1, TransactionsAssumption DEF DescInv, BalanceRead, TransactionsAssumption
<1>2. CASE rq.cell \in Keys
  <2>3. PICK k : k = rq.cell
    BY Zenon
  <2>4. PICK r : r = ReadVersionFull(k, i)
    BY Zenon
  <2>5. PICK d : d = StoreRead(rq, l, r)
    BY Zenon
  <2>6. k \in Keys /\ rq.cell \notin Addrs
    BY <1>2, <2>3, TransactionsAssumption, Zenon DEF TransactionsAssumption
  <2>1. CASE r = NotFound \/ r.est
    <3>1. /\ d.rq = rq /\ d.writer = -1 /\ d.inc = 0
          /\ d.val = Default(rq) /\ ~d.exact
      BY <2>1, <2>5, StoreReadFields
    <3>2. DescInv(d, i)
      BY <3>1 DEF DescInv
    <3> QED BY <2>3, <2>4, <2>5, <2>6, <3>2, Zenon
  <2>2. CASE r # NotFound /\ ~r.est
    <3>1. StoreTypeOK
      BY Zenon DEF EstimateInv, TypeInv, TypeOK
    <3>2. PICK w \in 0 .. (i - 1) :
              /\ mv[k][w].there
              /\ r = [found |-> TRUE, writer |-> w, inc |-> mv[k][w].inc,
                      val |-> mv[k][w].val, est |-> mv[k][w].est]
      BY <2>2, <2>4, <2>6, <3>1, LatestEntry, TransactionsAssumption, Zenon
    <3>3. w \in Tx /\ w # -1
      BY TransactionsAssumption DEF Tx, TransactionsAssumption
    <3>4. ~mv[k][w].est
      BY <2>2, <3>2, Zenon
    <3>5. /\ mv[k][w].inc = incarnations[w] /\ pdb[w].done
          /\ mv[k][w].val = Published(pdb[w].out, k) /\ mv[k][w].val # Nil
      BY <2>6, <3>2, <3>3, <3>4, CurrentVersion, Zenon
    <3>6. incarnations[w] \in 0 .. 1
      BY <3>3, Zenon DEF EstimateInv, TypeInv, TypeOK
    <3>8. r.found /\ r.writer = w /\ r.inc = mv[k][w].inc /\ r.val = mv[k][w].val
      BY <3>2, Zenon
    <3>7. /\ d.rq = rq /\ d.writer = w /\ d.inc = mv[k][w].inc /\ d.val = mv[k][w].val
          /\ d.exact <=> (rq.cell \in Markers \/ rq.after >= 0)
      BY <2>2, <2>5, <3>8, StoreReadFields
    <3>9. DescInv(d, i)
      BY <2>3, <3>5, <3>6, <3>7 DEF DescInv
    <3> QED BY <2>3, <2>4, <2>5, <2>6, <3>9, Zenon
  <2> QED BY <2>1, <2>2, Zenon
<1> QED BY <1>1, <1>2, Zenon

\* Every step keeps the invariant of the read log.
LEMMA LogStep ==
    ASSUME EstimateInv, ContentInv, NEW i \in Tx, LogInv(i), [Next]_vars
    PROVE  LogInv(i)'
<1>1. /\ DOMAIN pdb = Tx /\ DOMAIN states = Tx /\ TypeInv /\ ControlInv /\ block \in Blocks
  BY Zenon DEF EstimateInv, TypeInv, TypeOK, PDBTypeOK
<1>2. block' = block /\ Prog(i)' = Prog(i) /\ Prog(i) \in Programs
  BY <1>1, BlockFixed, V2Assumption, Zenon DEF Prog, V2Assumption
<1>3. ASSUME ~cancelled' PROVE ~cancelled
  BY <1>1, <1>3, CancelMonotone, Zenon
<1>4. ASSUME NEW d, ~cancelled', d \in pdb[i].reads \cup states[i].reads PROVE DescInv(d, i)'
  BY <1>3, <1>4, DescStep, Zenon DEF LogInv
<1>5. ASSUME RunInv(Prog(i), pdb'[i]), RunInv(Prog(i), states'[i]),
             ~cancelled' => \A d \in pdb'[i].reads \cup states'[i].reads : DescInv(d, i)'
      PROVE  LogInv(i)'
  BY <1>2, <1>5, Zenon DEF LogInv, RunInv
<1>6. RunInv(Prog(i), pdb[i]) /\ RunInv(Prog(i), states[i])
  BY Zenon DEF LogInv
<1>7. CASE pdb'[i] = pdb[i] /\ states'[i] \in {states[i], pdb[i]}
  <2>1. RunInv(Prog(i), pdb'[i]) /\ RunInv(Prog(i), states'[i])
    BY <1>6, <1>7, Zenon
  <2> QED BY <1>4, <1>5, <1>7, <2>1, Zenon
<1>8. CASE Read(i)
  <2> DEFINE s  == pdb[i]
             rq == NextRead(Prog(i), s.loc)
             r  == ReadVersionFull(rq.cell, i)
  <2>8. PICK d : d = IF rq.cell \in Addrs THEN BalanceRead(rq, s.loc, i)
                                          ELSE StoreRead(rq, s.loc, r)
    BY Zenon
  <2> DEFINE s2 == [done |-> FALSE, inc |-> s.inc, loc |-> Step(Prog(i), s.loc, Obs(d)),
                    reads |-> s.reads \cup {d}, out |-> NoOutcome]
  <2>1. pdb'[i] = s2 /\ states' = states /\ cancelled' = cancelled
    BY <1>1, <1>8, <2>8, Zenon DEF Read, ctxVars
  <2>2. rq \in Requests
    BY <1>2, <1>8, TransactionsAssumption, Zenon DEF Read, TransactionsAssumption
  <2>3. d.loc = s.loc /\ d.rq = rq
    BY <2>8, Zenon DEF BalanceRead, StoreRead
  <2>4. ~cancelled => DescInv(d, i)
    BY <2>2, <2>8, ReadDesc, Zenon DEF Requests, Cells
  <2>5. ~cancelled' => DescInv(d, i)'
    BY <1>3, <2>4, DescStep, Zenon
  <2>6. RunInv(Prog(i), s2)
    <3> DEFINE visited  == {e.loc : e \in s.reads} \cup {s.loc}
               visited2 == {e.loc : e \in s2.reads} \cup {s2.loc}
    <3>1. visited \subseteq visited2 /\ Step(Prog(i), s.loc, Obs(d)) \in visited2
      BY <2>3, Zenon
    <3>2. \A e \in s.reads : /\ e.rq = NextRead(Prog(i), e.loc)
                             /\ Step(Prog(i), e.loc, Obs(e)) \in visited
      BY <1>6, Zenon DEF RunInv
    <3>3. \A e \in s2.reads : /\ e.rq = NextRead(Prog(i), e.loc)
                              /\ Step(Prog(i), e.loc, Obs(e)) \in visited2
      BY <2>3, <3>1, <3>2, Zenon
    <3>4. Start(Prog(i)) \in visited2
      BY <1>6, <3>1, Zenon DEF RunInv
    <3> QED BY <3>3, <3>4, Zenon DEF RunInv
  <2>7. ~cancelled' => \A e \in pdb'[i].reads \cup states'[i].reads : DescInv(e, i)'
    BY <1>4, <2>1, <2>5
  <2> HIDE DEF s2
  <2> QED BY <1>5, <1>6, <2>1, <2>6, <2>7, Zenon
<1>9. CASE Finish(i)
  <2> DEFINE s == [done |-> TRUE, inc |-> pdb[i].inc, loc |-> pdb[i].loc,
                   reads |-> pdb[i].reads, out |-> Output(Prog(i), pdb[i].loc)]
  <2>1. pdb'[i] = s /\ states' = states /\ pdb[i].loc \in Ends(Prog(i))
    BY <1>1, <1>9, Zenon DEF Finish, ctxVars
  <2>2. RunInv(Prog(i), s)
    BY <1>6, <2>1, Zenon DEF RunInv
  <2>3. ~cancelled' => \A e \in pdb'[i].reads \cup states'[i].reads : DescInv(e, i)'
    BY <1>4, <2>1
  <2> HIDE DEF s
  <2> QED BY <1>5, <1>6, <2>1, <2>2, <2>3, Zenon
<1>10. CASE LaunchReexec /\ i = vi
  <2> DEFINE s == NewPDB(Prog(i), incarnations[vi] + 1)
  <2>1. pdb'[i] = s /\ states' = states
    BY <1>1, <1>10, Zenon DEF LaunchReexec
  <2>2. RunInv(Prog(i), s) /\ s.reads = {}
    BY Zenon DEF RunInv, NewPDB
  <2>3. ~cancelled' => \A e \in pdb'[i].reads \cup states'[i].reads : DescInv(e, i)'
    BY <1>4, <2>1, <2>2, Zenon
  <2> HIDE DEF s
  <2> QED BY <1>5, <1>6, <2>1, <2>2, <2>3, Zenon
<1> QED BY <1>7, <1>8, <1>9, <1>10, RunStep, Zenon

=============================================================================
