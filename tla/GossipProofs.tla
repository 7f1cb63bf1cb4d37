---------------------------- MODULE GossipProofs ----------------------------
(***************************************************************************)
(* Proofs about Gossip.  The first part is the inductive invariant IInv:   *)
(* types, at most one record per origin, the agreement of a board's        *)
(* records with its registry.  Its lemmas follow the call structure of     *)
(* onReport(): acceptOrigin(), mergeAssociation(), one relayed entry, the  *)
(* whole report.  The other parts build on it: who may change a registry   *)
(* entry; where records come from; how identities advance; the rounds of   *)
(* the records that are kept; a board's own record.                        *)
(* The last part is that Gossip implements Rumours: every step of the farm *)
(* is, for the news of one origin, a step of Rumours or changes nothing;   *)
(* and what Rumours promises, which the farm then keeps.                   *)
(* Its hypotheses are that nothing panics (a panic brings the ages of the  *)
(* last checkpoint back) and that a table has an entry for every board.    *)
(***************************************************************************)
EXTENDS GossipAges, TLAPS, FiniteSetTheorems

Consistent(b, s) ==
  \A a \in s.associations : a.origin # b => Same(s, a.origin, a.epoch)

Unique(s) == OnePerOrigin(s.originEpochs) /\ OnePerOrigin(s.associations)

Good(b, s) == s \in Tables /\ Consistent(b, s) /\ Unique(s)

\* Accepting an origin leaves well-formed tables in which it is registered.
LEMMA AcceptGood ==
  ASSUME NEW b \in Board, NEW s, Good(b, s), NEW o \in Board, NEW e \in Epochs
  PROVE  /\ Good(b, Accept(s, o, e))
         /\ Same(Accept(s, o, e), o, e)
<1>1. CASE Same(s, o, e)
  BY <1>1 DEF Accept
<1>2. CASE ~Same(s, o, e)
  <2> DEFINE reg == {r \in s.originEpochs : r.origin # o} \cup {[origin |-> o, epoch |-> e]}
             recs == {a \in s.associations : a.origin = o => a.epoch = e}
  <2>1. s = [incarnation |-> s.incarnation, wakeGeneration |-> s.wakeGeneration,
             originEpochs |-> s.originEpochs, associations |-> s.associations]
    BY DEF Good, Tables
  <2>2. Accept(s, o, e) = [incarnation |-> s.incarnation, wakeGeneration |-> s.wakeGeneration,
                           originEpochs |-> reg, associations |-> recs]
    BY <1>2, <2>1 DEF Accept
  <2>3. reg \subseteq Origin /\ recs \subseteq Association
    BY DEF Good, Tables, Origin
  <2>4. Accept(s, o, e) \in Tables
    BY <2>2, <2>3 DEF Good, Tables
  <2>5. Consistent(b, Accept(s, o, e))
    BY <2>2 DEF Good, Consistent, Same, Tables, Association
  <2>6. Unique(Accept(s, o, e))
    BY <2>2 DEF Good, Unique, OnePerOrigin
  <2>7. Same(Accept(s, o, e), o, e)
    BY <2>2 DEF Same
  <2> QED BY <2>4, <2>5, <2>6, <2>7 DEF Good
<1> QED BY <1>1, <1>2

\* Merging a record keeps the tables well formed if its origin is registered
\* in the record's incarnation, or is the board itself.
LEMMA MergeGood ==
  ASSUME NEW b \in Board, NEW s, Good(b, s), NEW a \in Association,
         NEW direct \in BOOLEAN, a.origin = b \/ Same(s, a.origin, a.epoch)
  PROVE  Good(b, MergeAssociation(s, a, direct))
<1>1. CASE Merges(s, a, direct)
  <2> DEFINE new == [a EXCEPT !.age = IF direct THEN 0 ELSE OlderByOne(a.age)]
             recs == {old \in s.associations : old.origin # a.origin} \cup {new}
  <2>1. new \in Association /\ new.origin = a.origin /\ new.epoch = a.epoch
    BY BoundsAssumption DEF Association, OlderByOne
  <2>2. s = [incarnation |-> s.incarnation, wakeGeneration |-> s.wakeGeneration,
             originEpochs |-> s.originEpochs, associations |-> s.associations]
    BY DEF Good, Tables
  <2>3. MergeAssociation(s, a, direct) =
          [incarnation |-> s.incarnation, wakeGeneration |-> s.wakeGeneration,
           originEpochs |-> s.originEpochs, associations |-> recs]
    BY <1>1, <2>2 DEF MergeAssociation
  <2>4. MergeAssociation(s, a, direct) \in Tables
    BY <2>1, <2>3 DEF Good, Tables
  <2> HIDE DEF new
  <2>5. Consistent(b, MergeAssociation(s, a, direct))
    <3> SUFFICES ASSUME NEW x \in recs, x.origin # b
                 PROVE  [origin |-> x.origin, epoch |-> x.epoch] \in s.originEpochs
      BY <2>3 DEF Consistent, Same
    <3> QED BY <2>1 DEF Good, Consistent, Same
  <2>6. Unique(MergeAssociation(s, a, direct))
    <3>1. OnePerOrigin(recs)
      BY <2>1 DEF Good, Unique, OnePerOrigin
    <3> QED BY <2>3, <3>1 DEF Good, Unique
  <2> QED BY <2>4, <2>5, <2>6 DEF Good
<1>2. CASE ~Merges(s, a, direct)
  BY <1>2 DEF MergeAssociation
<1> QED BY <1>1, <1>2

\* A relayed entry, which is never about the board itself when accepted.
LEMMA OnEntryGood ==
  ASSUME NEW b \in Board, NEW s, Good(b, s), NEW a \in Association
  PROVE  Good(b, OnEntry(b, s, a))
<1>1. a.origin \in Board /\ a.epoch \in Epochs
  BY DEF Association
<1> DEFINE t == Accept(s, a.origin, a.epoch)
<1>2. Good(b, t) /\ Same(t, a.origin, a.epoch)
  BY <1>1, AcceptGood
<1>3. Good(b, MergeAssociation(t, a, FALSE))
  BY <1>2, MergeGood
<1> QED BY <1>3 DEF OnEntry

Reports == [sender : Board, incarnation : Epochs, wakeGeneration : 1 .. GenMax,
            relayed : SUBSET Association]

\* A whole report, header and relayed entry, keeps the tables well formed.
LEMMA OnReportGood ==
  ASSUME NEW b \in Board, NEW s, Good(b, s), NEW m \in Reports
  PROVE  Good(b, OnReport(b, s, m))
<1> DEFINE t == Accept(s, m.sender, m.incarnation)
           h == HeaderRecord(m)
           heard == MergeAssociation(t, h, TRUE)
<1>1. m.sender \in Board /\ m.incarnation \in Epochs
  BY DEF Reports
<1>2. Good(b, t) /\ Same(t, m.sender, m.incarnation)
  BY <1>1, AcceptGood
<1>3. h \in Association /\ h.origin = m.sender /\ h.epoch = m.incarnation
  BY BoundsAssumption DEF HeaderRecord, Record, Association, Reports
<1>4. Good(b, heard)
  <2>1. Same(t, h.origin, h.epoch)
    BY <1>2, <1>3
  <2> QED BY <1>2, <1>3, <2>1, MergeGood
<1>5. ASSUME m.relayed # {}
      PROVE  Good(b, OnEntry(b, heard, CHOOSE a \in m.relayed : TRUE))
  <2>1. (CHOOSE a \in m.relayed : TRUE) \in Association
    BY <1>5 DEF Reports
  <2> QED BY <1>4, <2>1, OnEntryGood
<1> QED BY <1>4, <1>5 DEF OnReport

\* Reloading checks every record against the registry.
LEMMA ReloadedGood ==
  ASSUME NEW b \in Board, NEW f \in Tables, Unique(f)
  PROVE  Good(b, Reloaded(f))
<1> DEFINE recs == {a \in f.associations : Same(f, a.origin, a.epoch)}
<1>1. f = [incarnation |-> f.incarnation, wakeGeneration |-> f.wakeGeneration,
           originEpochs |-> f.originEpochs, associations |-> f.associations]
  BY DEF Tables
<1>2. Reloaded(f) = [incarnation |-> f.incarnation, wakeGeneration |-> f.wakeGeneration,
                     originEpochs |-> f.originEpochs, associations |-> recs]
  <2>1. Reloaded(f) = [f EXCEPT !.associations = recs]
    BY DEF Reloaded
  <2> HIDE DEF recs
  <2> QED BY <1>1, <2>1
<1>3. Reloaded(f) \in Tables
  BY <1>2 DEF Tables
<1>4. Consistent(b, Reloaded(f))
  BY <1>2 DEF Consistent, Same
<1>5. Unique(Reloaded(f))
  BY <1>2 DEF Unique, OnePerOrigin
<1> QED BY <1>3, <1>4, <1>5 DEF Good

-----------------------------------------------------------------------------
(* The inductive invariant.  SPIFFS need not be consistent: a crash between  *)
(* the two writes of a checkpoint leaves records of one moment and a         *)
(* registry of another, which is why Reloaded() checks them.                 *)

Identified(b) ==
  Running(b) =>
    /\ ram[b].incarnation \in Epochs /\ ram[b].wakeGeneration \in 1 .. GenMax
    /\ flash[b].incarnation \in {ram[b].incarnation, NoEpoch}

IInv ==
  /\ TypeOK
  /\ \A b \in Board : Identified(b)
  /\ \A b \in Board : Good(b, ram[b])
  /\ \A b \in Board : Unique(flash[b])

\* Empty tables are well formed.
LEMMA BlankGood ==
  /\ Blank \in Tables /\ Unique(Blank)
  /\ \A b \in Board : Good(b, Blank)
BY BoundsAssumption DEF Blank, Tables, Good, Consistent, Unique, OnePerOrigin

\* A farm that has just been flashed.
LEMMA InitIInv == Init => IInv
<1> SUFFICES ASSUME Init PROVE IInv
  OBVIOUS
<1>1. TypeOK
  BY BlankGood, BoundsAssumption DEF Init, TypeOK
<1>2. \A b \in Board : Identified(b)
  BY DEF Init, Identified, Running
<1> QED BY <1>1, <1>2, BlankGood DEF Init, IInv

\* The tables' identity is untouched by whatever is received.
SameIdentity(s, t) ==
  t.incarnation = s.incarnation /\ t.wakeGeneration = s.wakeGeneration

\* Neither acceptOrigin() ...
LEMMA AcceptKeepsIdentity ==
  ASSUME NEW s \in Tables, NEW o, NEW e PROVE SameIdentity(s, Accept(s, o, e))
BY DEF SameIdentity, Accept, Tables

\* ... nor mergeAssociation() ...
LEMMA MergeKeepsIdentity ==
  ASSUME NEW s \in Tables, NEW a, NEW direct
  PROVE  SameIdentity(s, MergeAssociation(s, a, direct))
BY DEF SameIdentity, MergeAssociation, Tables

\* ... nor a whole report touches the board's own identity.
LEMMA ReportKeepsIdentity ==
  ASSUME NEW b \in Board, NEW s, Good(b, s), NEW m \in Reports
  PROVE  SameIdentity(s, OnReport(b, s, m))
<1> DEFINE t == Accept(s, m.sender, m.incarnation)
           h == HeaderRecord(m)
           heard == MergeAssociation(t, h, TRUE)
<1>1. m.sender \in Board /\ m.incarnation \in Epochs
  BY DEF Reports
<1>2. Good(b, t) /\ Same(t, m.sender, m.incarnation)
  BY <1>1, AcceptGood
<1>3. h \in Association /\ h.origin = m.sender /\ h.epoch = m.incarnation
  BY BoundsAssumption DEF HeaderRecord, Record, Association, Reports
<1>4. Good(b, heard)
  <2>1. Same(t, h.origin, h.epoch)
    BY <1>2, <1>3
  <2> QED BY <1>2, <1>3, <2>1, MergeGood
<1>5. SameIdentity(s, heard)
  <2>1. SameIdentity(s, t)
    BY AcceptKeepsIdentity DEF Good
  <2>2. SameIdentity(t, heard)
    BY <1>2, MergeKeepsIdentity DEF Good
  <2> QED BY <2>1, <2>2 DEF SameIdentity
<1>6. ASSUME m.relayed # {}
      PROVE  SameIdentity(heard, OnEntry(b, heard, CHOOSE a \in m.relayed : TRUE))
  <2> DEFINE a == CHOOSE a \in m.relayed : TRUE
             u == Accept(heard, a.origin, a.epoch)
  <2>1. a \in Association
    BY <1>6 DEF Reports
  <2> HIDE DEF a
  <2>2. a.origin \in Board /\ a.epoch \in Epochs
    BY <2>1 DEF Association
  <2>3. u \in Tables
    BY <1>4, <2>2, AcceptGood DEF Good
  <2>4. SameIdentity(heard, u) /\ SameIdentity(u, MergeAssociation(u, a, FALSE))
    BY <1>4, <2>3, AcceptKeepsIdentity, MergeKeepsIdentity DEF Good
  <2>5. SameIdentity(heard, OnEntry(b, heard, a))
    BY <2>4 DEF OnEntry, SameIdentity
  <2> QED BY <2>5 DEF a
<1> HIDE DEF heard
<1> QED BY <1>5, <1>6 DEF OnReport, SameIdentity, heard

\* The random source returns incarnations.
LEMMA RandomIncarnationType == \A o \in Board : RandomIncarnation(o) \subseteq Epochs
BY DEF RandomIncarnation

\* Changing the identity of tables changes neither records nor registry.
LEMMA RenamedGood ==
  ASSUME NEW b \in Board, NEW s, Good(b, s),
         NEW e \in Epochs \cup {NoEpoch}, NEW g \in 0 .. GenMax
  PROVE  Good(b, [s EXCEPT !.incarnation = e, !.wakeGeneration = g])
<1> DEFINE t == [s EXCEPT !.incarnation = e, !.wakeGeneration = g]
<1>1. t \in Tables /\ t.associations = s.associations /\ t.originEpochs = s.originEpochs
  BY DEF Good, Tables
<1> HIDE DEF t
<1>2. Good(b, t)
  BY <1>1 DEF Good, Consistent, Same, Unique
<1> QED BY <1>2 DEF t

\* setup() reloads and checks what it finds in SPIFFS, and persists its identity.
LEMMA BootIInv ==
  ASSUME IInv, NEW b \in Board, Boot(b)
  PROVE  IInv'
<1>1. PICK e \in IF flash[b].incarnation = NoEpoch THEN RandomIncarnation(b)
                 ELSE {flash[b].incarnation} :
        LET gen == FirstRound(flash[b])
            started == [Reloaded(flash[b]) EXCEPT !.incarnation = e,
                                                  !.wakeGeneration = gen]
        IN  /\ ram' = [ram EXCEPT ![b] = AcceptOrigin(b, started, b, e, TRUE)]
            /\ flash' = [flash EXCEPT ![b].incarnation = e, ![b].wakeGeneration = gen]
  BY DEF Boot
<1> DEFINE gen == FirstRound(flash[b])
           started == [Reloaded(flash[b]) EXCEPT !.incarnation = e, !.wakeGeneration = gen]
           named == [flash[b] EXCEPT !.incarnation = e, !.wakeGeneration = gen]
<1>2. flash[b] \in Tables /\ Unique(flash[b])
  BY DEF IInv, TypeOK
<1>3. e \in Epochs
  BY <1>1, <1>2, RandomIncarnationType DEF Tables
<1>4. gen \in 0 .. GenMax
  BY <1>2, BoundsAssumption DEF FirstRound, Tables
<1>5. Good(b, started)
  BY <1>2, <1>3, <1>4, ReloadedGood, RenamedGood
<1>6. Good(b, AcceptOrigin(b, started, b, e, TRUE))
  BY <1>3, <1>5, AcceptGood DEF AcceptOrigin
<1>7. named \in Tables /\ Unique(named)
  BY <1>2, <1>3, <1>4 DEF Tables, Unique
<1>8. ram' = [ram EXCEPT ![b] = AcceptOrigin(b, started, b, e, TRUE)]
      /\ flash' = [flash EXCEPT ![b] = named]
  BY <1>1, <1>2 DEF IInv, TypeOK
<1>9. mode' = [mode EXCEPT ![b] = "awake"]
  BY DEF Boot
<1> HIDE DEF started, named, gen
<1>10. TypeOK'
  BY <1>6, <1>7, <1>8, <1>9 DEF IInv, TypeOK, Good
<1>11. \A x \in Board : Good(x, ram'[x]) /\ Unique(flash'[x])
  BY <1>6, <1>7, <1>8 DEF IInv, TypeOK
<1>12. SameIdentity(named, AcceptOrigin(b, started, b, e, TRUE))
       /\ named.incarnation = e /\ named.wakeGeneration \in 1 .. GenMax
  <2>1. named.incarnation = e /\ named.wakeGeneration = gen
    BY <1>2 DEF named, Tables
  <2>2. gen \in 1 .. GenMax
    BY <1>2, BoundsAssumption DEF gen, FirstRound, Tables
  <2>3. Reloaded(flash[b]) \in Tables
    BY <1>2, ReloadedGood DEF Good
  <2>4. started.incarnation = e /\ started.wakeGeneration = gen
    BY <2>3 DEF started, Tables
  <2>5. SameIdentity(started, AcceptOrigin(b, started, b, e, TRUE))
    BY <1>5, AcceptKeepsIdentity DEF Good, AcceptOrigin, SameIdentity
  <2> QED BY <2>1, <2>2, <2>4, <2>5 DEF SameIdentity
<1>13. \A x \in Board : Identified(x)'
  BY <1>3, <1>8, <1>9, <1>12 DEF IInv, TypeOK, Identified, SameIdentity, Running
<1> QED BY <1>10, <1>11, <1>13 DEF IInv, Good, Consistent, Unique, Tables

\* A broadcast, with everything that its hearers do.
LEMMA PublishIInv ==
  ASSUME IInv, NEW b \in Board, Publish(b)
  PROVE  IInv'
<1> DEFINE own == Record(b, ram[b].incarnation, ram[b].wakeGeneration, 0)
           s == MergeAssociation(ram[b], own, TRUE)
           packet(relayed) == [sender |-> b, incarnation |-> s.incarnation,
                               wakeGeneration |-> s.wakeGeneration,
                               relayed |-> relayed]
<1>1. PICK relayed \in {{}} \cup {{a} : a \in {x \in s.associations : IsFresh(x)}},
           hearers \in SUBSET {h \in Board \ {b} : Running(h)} :
        ram' = [h \in Board |-> IF h = b THEN s
                               ELSE IF h \in hearers THEN OnReport(h, ram[h], packet(relayed))
                               ELSE ram[h]]
  BY DEF Publish
<1>2. mode' = mode /\ flash' = flash
  BY DEF Publish
<1>3. Running(b)
  BY DEF Publish, Running
<1>4. own \in Association /\ own.origin = b
  BY <1>3, BoundsAssumption DEF IInv, TypeOK, Identified, Record, Association
<1>5. Good(b, s) /\ SameIdentity(ram[b], s)
  BY <1>4, MergeGood, MergeKeepsIdentity DEF IInv, Good
<1> HIDE DEF s
<1>6. relayed \subseteq Association
  BY <1>5 DEF Good, Tables
<1>7. packet(relayed) \in Reports
  BY <1>3, <1>5, <1>6 DEF IInv, TypeOK, Identified, SameIdentity, Reports
<1> HIDE DEF packet
<1>8. \A h \in Board : Good(h, ram'[h]) /\ SameIdentity(ram[h], ram'[h])
  BY <1>1, <1>5, <1>7, OnReportGood, ReportKeepsIdentity DEF IInv, SameIdentity
<1>9. TypeOK'
  <2>1. ram' \in [Board -> Tables]
    BY <1>1, <1>8 DEF Good
  <2> QED BY <1>2, <2>1 DEF IInv, TypeOK
<1>10. \A h \in Board : Identified(h)'
  BY <1>2, <1>8 DEF IInv, Identified, SameIdentity, Running
<1>11. \A h \in Board : Unique(flash'[h])
  BY <1>2 DEF IInv
<1> QED BY <1>8, <1>9, <1>10, <1>11 DEF IInv, Good, Consistent, Unique, Tables

\* Ageing a table changes neither origins nor incarnations.
LEMMA AgedGood ==
  ASSUME NEW b \in Board, NEW s, Good(b, s), NEW k \in Nat
  PROVE  LET aged == [s EXCEPT !.associations =
                        {[a EXCEPT !.age = Aged(a.age, k)] : a \in @}]
         IN  Good(b, aged) /\ SameIdentity(s, aged)
<1> DEFINE older(a) == [a EXCEPT !.age = Aged(a.age, k)]
           recs == {older(a) : a \in s.associations}
           aged == [s EXCEPT !.associations = recs]
<1>1. \A a \in s.associations :
        older(a) \in Association /\ older(a).origin = a.origin /\ older(a).epoch = a.epoch
  BY BoundsAssumption DEF Good, Tables, Association, Aged
<1> HIDE DEF older
<1>2. /\ aged.associations = recs /\ aged.originEpochs = s.originEpochs
      /\ SameIdentity(s, aged)
      /\ aged \in Tables
  BY <1>1 DEF Good, Tables, SameIdentity
<1>3. Consistent(b, aged)
  <2> SUFFICES ASSUME NEW x \in recs, x.origin # b
               PROVE  [origin |-> x.origin, epoch |-> x.epoch] \in s.originEpochs
    BY <1>2 DEF Consistent, Same
  <2> QED BY <1>1 DEF Good, Consistent, Same
<1>4. Unique(aged)
  <2>1. OnePerOrigin(recs)
    BY <1>1 DEF Good, Unique, OnePerOrigin
  <2> QED BY <1>2, <2>1 DEF Good, Unique
<1> QED BY <1>2, <1>3, <1>4 DEF Good, older

\* A round, which may be the one after which the round counter wraps.
LEMMA AdvanceRoundIInv ==
  ASSUME IInv, NEW b \in Board, NEW k \in 1 .. MaxElapsed, AdvanceRound(b, k)
  PROVE  IInv'
<1> DEFINE aged == [ram[b] EXCEPT !.associations =
                      {[a EXCEPT !.age = Aged(a.age, k)] : a \in @}]
<1>1. Good(b, aged) /\ SameIdentity(ram[b], aged)
  <2>1. k \in Nat
    BY BoundsAssumption
  <2> QED BY <2>1, AgedGood DEF IInv
<1>2. /\ mode' = mode /\ mode[b] = "awake"
      /\ flash[b].incarnation # NoEpoch
      /\ ram[b].incarnation \in Epochs /\ ram[b].wakeGeneration \in 1 .. GenMax
      /\ flash[b].incarnation = ram[b].incarnation
  BY DEF AdvanceRound, IInv, Identified, Running
<1>3. flash[b] \in Tables /\ Unique(flash[b])
  BY DEF IInv, TypeOK
<1>4. CASE k > GenMax - aged.wakeGeneration
  <2>1. PICK e \in RandomIncarnation(b) :
          /\ ram' = [ram EXCEPT ![b] = AcceptOrigin(b, [aged EXCEPT !.incarnation = e,
                                                        !.wakeGeneration = 1], b, e, TRUE)]
          /\ flash' = [flash EXCEPT ![b].incarnation = e, ![b].wakeGeneration = 1]
    BY <1>4 DEF AdvanceRound
  <2> DEFINE wrapped == [aged EXCEPT !.incarnation = e, !.wakeGeneration = 1]
             renamed == [flash[b] EXCEPT !.incarnation = e, !.wakeGeneration = 1]
  <2>2. e \in Epochs /\ 1 \in 0 .. GenMax /\ 1 \in 1 .. GenMax
    BY RandomIncarnationType, BoundsAssumption
  <2> HIDE DEF aged
  <2>3. Good(b, wrapped)
    BY <1>1, <2>2, RenamedGood
  <2>4. wrapped.incarnation = e /\ wrapped.wakeGeneration = 1
    BY <1>1 DEF Good, Tables
  <2>5. flash' = [flash EXCEPT ![b] = renamed]
    BY <2>1 DEF IInv, TypeOK
  <2>6. renamed \in Tables /\ Unique(renamed) /\ renamed.incarnation = e
    BY <1>3, <2>2 DEF Tables, Unique
  <2> HIDE DEF wrapped, renamed
  <2>7. Good(b, AcceptOrigin(b, wrapped, b, e, TRUE))
        /\ SameIdentity(wrapped, AcceptOrigin(b, wrapped, b, e, TRUE))
    BY <2>2, <2>3, AcceptGood, AcceptKeepsIdentity DEF AcceptOrigin, Good, SameIdentity
  <2>8. ram' = [ram EXCEPT ![b] = AcceptOrigin(b, wrapped, b, e, TRUE)]
    BY <2>1 DEF wrapped
  <2>9. TypeOK'
    BY <1>2, <2>5, <2>6, <2>7, <2>8 DEF IInv, TypeOK, Good
  <2>10. \A x \in Board : Good(x, ram'[x]) /\ Unique(flash'[x])
    BY <2>5, <2>6, <2>7, <2>8 DEF IInv, TypeOK
  <2>11. \A x \in Board : Identified(x)'
    BY <1>2, <2>2, <2>4, <2>5, <2>6, <2>7, <2>8
       DEF IInv, TypeOK, Identified, SameIdentity, Running
  <2> QED BY <2>9, <2>10, <2>11 DEF IInv, Good, Consistent, Unique, Tables
<1>5. CASE ~(k > GenMax - aged.wakeGeneration)
  <2> DEFINE gen == aged.wakeGeneration + k
             later == [aged EXCEPT !.wakeGeneration = gen]
             stamped == [flash[b] EXCEPT !.wakeGeneration = gen]
  <2>1. gen \in 1 .. GenMax
    BY <1>1, <1>2, <1>5, BoundsAssumption DEF SameIdentity
  <2>2. ram' = [ram EXCEPT ![b] = later]
    BY <1>5 DEF AdvanceRound
  <2>3. flash' = [flash EXCEPT ![b] = stamped]
    BY <1>5 DEF AdvanceRound, IInv, TypeOK
  <2> HIDE DEF aged, gen
  <2>4. /\ later \in Tables /\ later.wakeGeneration = gen
        /\ later.incarnation = aged.incarnation
        /\ later.associations = aged.associations /\ later.originEpochs = aged.originEpochs
    BY <1>1, <2>1 DEF Good, Tables
  <2>5. stamped \in Tables /\ Unique(stamped) /\ stamped.incarnation = flash[b].incarnation
    BY <1>3, <2>1 DEF Tables, Unique
  <2> HIDE DEF later, stamped
  <2>6. Good(b, later)
    BY <1>1, <2>4 DEF Good, Consistent, Same, Unique
  <2>7. TypeOK'
    BY <1>2, <2>2, <2>3, <2>4, <2>5 DEF IInv, TypeOK
  <2>8. \A x \in Board : Good(x, ram'[x]) /\ Unique(flash'[x])
    BY <2>2, <2>3, <2>5, <2>6 DEF IInv, TypeOK
  <2>9. \A x \in Board : Identified(x)'
    BY <1>1, <1>2, <2>1, <2>2, <2>3, <2>4, <2>5
       DEF IInv, TypeOK, Identified, SameIdentity, Running
  <2> QED BY <2>7, <2>8, <2>9 DEF IInv, Good, Consistent, Unique, Tables
<1> QED BY <1>4, <1>5

\* executeTestReset() clears both copies of the tables.
LEMMA TestResetIInv ==
  ASSUME IInv, NEW b \in Board, TestReset(b)
  PROVE  IInv'
<1> DEFINE cleared == [ram[b] EXCEPT !.originEpochs = {}, !.associations = {}]
<1>1. /\ mode' = mode /\ flash' = [flash EXCEPT ![b] = Blank]
      /\ ram' = [ram EXCEPT ![b] = cleared]
  BY DEF TestReset, IInv, TypeOK
<1>2. /\ cleared \in Tables /\ SameIdentity(ram[b], cleared)
      /\ cleared.originEpochs = {} /\ cleared.associations = {}
  BY DEF IInv, TypeOK, Tables, SameIdentity
<1> HIDE DEF cleared
<1>3. Good(b, cleared)
  BY <1>2 DEF Good, Consistent, Unique, OnePerOrigin
<1>4. TypeOK'
  BY <1>1, <1>2, BlankGood DEF IInv, TypeOK
<1>5. \A x \in Board : Good(x, ram'[x]) /\ Unique(flash'[x])
  BY <1>1, <1>3, BlankGood DEF IInv, TypeOK
<1>6. \A x \in Board : Identified(x)'
  BY <1>1, <1>2 DEF IInv, TypeOK, Identified, SameIdentity, Running, Blank
<1> QED BY <1>4, <1>5, <1>6 DEF IInv, Good, Consistent, Unique, Tables

\* Each of the two writes of a checkpoint copies one table, alone.
LEMMA CheckpointIInv ==
  ASSUME IInv, NEW b \in Board, SaveAssociations(b) \/ SaveOriginsStayAwake(b)
  PROVE  IInv'
<1>1. /\ ram' = ram
      /\ Running(b) /\ mode' \in [Board -> {"asleep", "awake", "saving", "off"}]
      /\ \A x \in Board : Running(x)' <=> Running(x)
  BY DEF SaveAssociations, SaveOriginsStayAwake, IInv, TypeOK, Running
<1>2. PICK f \in Tables :
        /\ flash' = [flash EXCEPT ![b] = f] /\ Unique(f)
        /\ f.incarnation = flash[b].incarnation
  <2> DEFINE g == [flash[b] EXCEPT !.associations = ram[b].associations]
             h == [flash[b] EXCEPT !.originEpochs = ram[b].originEpochs]
  <2>1. flash[b] \in Tables /\ Unique(flash[b]) /\ ram[b] \in Tables /\ Unique(ram[b])
    BY DEF IInv, TypeOK, Good
  <2>2. /\ g \in Tables /\ Unique(g) /\ g.incarnation = flash[b].incarnation
        /\ h \in Tables /\ Unique(h) /\ h.incarnation = flash[b].incarnation
    BY <2>1 DEF Tables, Unique
  <2>3. flash' = [flash EXCEPT ![b] = g] \/ flash' = [flash EXCEPT ![b] = h]
    BY DEF SaveAssociations, SaveOriginsStayAwake, IInv, TypeOK
  <2> QED BY <2>2, <2>3
<1>3. TypeOK'
  BY <1>1, <1>2 DEF IInv, TypeOK
<1>4. \A x \in Board : Unique(flash'[x])
  BY <1>2 DEF IInv, TypeOK
<1>5. \A x \in Board : Identified(x)'
  BY <1>1, <1>2 DEF IInv, TypeOK, Identified
<1>6. \A x \in Board : Good(x, ram'[x])
  BY <1>1 DEF IInv
<1> QED BY <1>3, <1>4, <1>5, <1>6 DEF IInv, Good, Consistent, Unique, Tables

\* A board that stops running, with whatever is in SPIFFS by then.
LEMMA StoppedIInv ==
  ASSUME IInv, NEW b \in Board, NEW f \in Tables, Unique(f),
         NEW how \in {"asleep", "off"},
         mode' = [mode EXCEPT ![b] = how], ram' = [ram EXCEPT ![b] = Blank],
         flash' = [flash EXCEPT ![b] = f]
  PROVE  IInv'
<1>1. TypeOK'
  BY BlankGood DEF IInv, TypeOK
<1>2. \A x \in Board : Good(x, ram'[x]) /\ Unique(flash'[x])
  BY BlankGood DEF IInv, TypeOK
<1>3. \A x \in Board : Identified(x)'
  BY DEF IInv, TypeOK, Identified, Running
<1> QED BY <1>1, <1>2, <1>3 DEF IInv, Good, Consistent, Unique, Tables

\* The second write of a checkpoint, and deep sleep.
LEMMA SleepIInv ==
  ASSUME IInv, NEW b \in Board, SaveOriginsAndSleep(b)
  PROVE  IInv'
<1>1. PICK gen \in {ram[b].wakeGeneration} \cup
                   IF flash[b].incarnation = NoEpoch THEN {0} ELSE {} :
        flash' = [flash EXCEPT ![b].originEpochs = ram[b].originEpochs,
                               ![b].wakeGeneration = gen]
  BY DEF SaveOriginsAndSleep
<1> DEFINE f == [flash[b] EXCEPT !.originEpochs = ram[b].originEpochs,
                                 !.wakeGeneration = gen]
<1>2. flash[b] \in Tables /\ Unique(flash[b]) /\ ram[b] \in Tables /\ Unique(ram[b])
  BY DEF IInv, TypeOK, Good
<1>3. gen \in 0 .. GenMax
  BY <1>2, BoundsAssumption DEF Tables
<1>4. f \in Tables /\ Unique(f)
  BY <1>2, <1>3 DEF Tables, Unique
<1>5. flash' = [flash EXCEPT ![b] = f]
  BY <1>1 DEF IInv, TypeOK
<1> HIDE DEF f
<1> QED BY <1>4, <1>5, StoppedIInv DEF SaveOriginsAndSleep

\* A panic, a cold reset, or the end of the power.
LEMMA StopIInv ==
  ASSUME IInv, NEW b \in Board, Crash(b) \/ ColdReset(b) \/ PowerOff(b)
  PROVE  IInv'
<1>1. flash[b] \in Tables /\ Unique(flash[b]) /\ flash = [flash EXCEPT ![b] = flash[b]]
  BY DEF IInv, TypeOK
<1>2. CASE Crash(b)
  BY <1>1, <1>2, StoppedIInv DEF Crash
<1>3. CASE ColdReset(b)
  BY <1>3, StoppedIInv, BlankGood DEF ColdReset
<1>4. CASE PowerOff(b)
  BY <1>1, <1>4, StoppedIInv DEF PowerOff
<1> QED BY <1>2, <1>3, <1>4

\* Every step keeps the inductive invariant.
LEMMA StepIInv == IInv /\ [Next]_vars => IInv'
<1> SUFFICES ASSUME IInv, [Next]_vars PROVE IInv'
  OBVIOUS
<1>1. ASSUME UNCHANGED vars PROVE IInv'
  BY <1>1 DEF vars, IInv, TypeOK, Identified, Running, Good, Consistent, Same,
              Unique, OnePerOrigin, Tables
<1>2. ASSUME NEW b \in Board, Step(b) PROVE IInv'
  BY <1>2, BootIInv, PublishIInv, AdvanceRoundIInv, TestResetIInv, CheckpointIInv,
     SleepIInv, StopIInv DEF Step
<1> QED BY <1>1, <1>2 DEF Next

\* The tables keep their types.
THEOREM TypeCorrect == Spec => []TypeOK
<1>1. IInv => TypeOK
  BY DEF IInv
<1> QED BY <1>1, InitIInv, StepIInv, PTL DEF Spec

\* The records of a board agree with its registry (EpochConsistent), however
\* reports, checkpoints, crashes and resets interleave.
THEOREM RecordsMatchRegistry == Spec => []EpochConsistent
<1>1. IInv => EpochConsistent
  BY DEF IInv, EpochConsistent, Good, Consistent
<1> QED BY <1>1, InitIInv, StepIInv, PTL DEF Spec

\* No origin is ever counted twice, in RAM or after a restart.
THEOREM OneRecordPerOrigin == Spec => []UniqueOrigins
<1>1. IInv => UniqueOrigins
  BY DEF IInv, UniqueOrigins, Good, Unique
<1> QED BY <1>1, InitIInv, StepIInv, PTL DEF Spec

-----------------------------------------------------------------------------
(* Who may change a registry entry.                                          *)

\* mergeAssociation() leaves the registry alone.
LEMMA MergeKeepsRegistry ==
  ASSUME NEW s \in Tables, NEW a, NEW direct
  PROVE  MergeAssociation(s, a, direct).originEpochs = s.originEpochs
BY DEF MergeAssociation, Tables

\* acceptOrigin() changes at most the entry of one origin.
LEMMA AcceptRegistry ==
  ASSUME NEW s \in Tables, NEW o, NEW e
  PROVE  /\ \A x \in Accept(s, o, e).originEpochs :
              \/ x \in s.originEpochs
              \/ ~Same(s, o, e) /\ x.origin = o /\ x.epoch = e
         /\ \A r \in s.originEpochs : r.origin # o => r \in Accept(s, o, e).originEpochs
<1>1. CASE Same(s, o, e)
  BY <1>1 DEF Accept
<1>2. CASE ~Same(s, o, e)
  <2>1. Accept(s, o, e).originEpochs =
          {r \in s.originEpochs : r.origin # o} \cup {[origin |-> o, epoch |-> e]}
    BY <1>2 DEF Accept, Tables
  <2> QED BY <1>2, <2>1
<1> QED BY <1>1, <1>2

\* A relayed entry changes no registered incarnation.
LEMMA EntryKeepsRegistry ==
  ASSUME NEW b \in Board, NEW s, Good(b, s), NEW a \in Association,
         NEW r \in s.originEpochs, NEW x \in OnEntry(b, s, a).originEpochs,
         x.origin = r.origin
  PROVE  x = r
<1>1. CASE ~Accepts(b, s, a.origin, a.epoch, FALSE)
  BY <1>1 DEF OnEntry, Good, Unique, OnePerOrigin
<1>2. CASE Accepts(b, s, a.origin, a.epoch, FALSE)
  <2> DEFINE t == Accept(s, a.origin, a.epoch)
  <2>1. Good(b, t)
    BY AcceptGood DEF Association
  <2>2. x \in t.originEpochs
    BY <1>2, <2>1, MergeKeepsRegistry DEF OnEntry, Good
  <2> HIDE DEF t
  <2>3. x \in s.originEpochs \/ (~Same(s, a.origin, a.epoch) /\ x.origin = a.origin)
    BY <2>2, AcceptRegistry DEF Good, t
  <2>4. x \in s.originEpochs \/ (~Remembers(s, a.origin) /\ x.origin = a.origin)
    BY <1>2, <2>3 DEF Accepts
  <2> QED BY <2>4 DEF Good, Unique, OnePerOrigin, Remembers
<1> QED BY <1>1, <1>2

\* A report changes a registered incarnation only to its sender's own.
LEMMA ReportRegistry ==
  ASSUME NEW b \in Board, NEW s, Good(b, s), NEW m \in Reports,
         NEW r \in s.originEpochs, NEW x \in OnReport(b, s, m).originEpochs,
         x.origin = r.origin, x.epoch # r.epoch
  PROVE  x.origin = m.sender /\ x.epoch = m.incarnation
<1> DEFINE t == Accept(s, m.sender, m.incarnation)
           h == HeaderRecord(m)
           heard == MergeAssociation(t, h, TRUE)
<1>1. m.sender \in Board /\ m.incarnation \in Epochs
  BY DEF Reports
<1>2. Good(b, t) /\ Same(t, m.sender, m.incarnation)
  BY <1>1, AcceptGood
<1>3. h \in Association /\ h.origin = m.sender /\ h.epoch = m.incarnation
  BY BoundsAssumption DEF HeaderRecord, Record, Association, Reports
<1>4. Good(b, heard)
  <2>1. Same(t, h.origin, h.epoch)
    BY <1>2, <1>3
  <2> QED BY <1>2, <1>3, <2>1, MergeGood
<1>5. heard.originEpochs = t.originEpochs
  BY <1>2, MergeKeepsRegistry DEF Good
<1>6. PICK y \in t.originEpochs : y.origin = r.origin
  <2>1. CASE r.origin = m.sender
    BY <1>2, <2>1 DEF Same
  <2>2. CASE r.origin # m.sender
    BY <2>2, AcceptRegistry DEF Good
  <2> QED BY <2>1, <2>2
<1>7. x \in s.originEpochs \/ x \in t.originEpochs
  <2>1. CASE OnReport(b, s, m) = s
    BY <2>1
  <2>2. CASE OnReport(b, s, m) = heard
    BY <2>2, <1>5
  <2>3. CASE m.relayed # {} /\ OnReport(b, s, m) = OnEntry(b, heard, CHOOSE a \in m.relayed : TRUE)
    <3>1. (CHOOSE a \in m.relayed : TRUE) \in Association
      BY <2>3 DEF Reports
    <3> HIDE DEF heard
    <3>2. x = y
      BY <1>4, <1>5, <1>6, <2>3, <3>1, EntryKeepsRegistry
    <3> QED BY <1>6, <3>2
  <2> QED BY <2>1, <2>2, <2>3 DEF OnReport
<1>8. x \notin s.originEpochs
  BY DEF Good, Unique, OnePerOrigin
<1> QED BY <1>7, <1>8, AcceptRegistry DEF Good

FollowsOrigin ==
  \A b \in Board : \A r \in ram[b].originEpochs, s \in ram'[b].originEpochs :
    (StaysUp(b) /\ r.origin = s.origin /\ r.epoch # s.epoch) =>
       s.epoch = flash'[s.origin].incarnation

\* A report changes a hearer's entry of its sender only.
LEMMA PublishFollows ==
  ASSUME IInv, NEW b \in Board, Publish(b)
  PROVE  FollowsOrigin
<1> DEFINE own == Record(b, ram[b].incarnation, ram[b].wakeGeneration, 0)
           s == MergeAssociation(ram[b], own, TRUE)
           packet(relayed) == [sender |-> b, incarnation |-> s.incarnation,
                               wakeGeneration |-> s.wakeGeneration,
                               relayed |-> relayed]
<1>1. PICK relayed \in {{}} \cup {{a} : a \in {x \in s.associations : IsFresh(x)}},
           hearers \in SUBSET {h \in Board \ {b} : Running(h)} :
        ram' = [h \in Board |-> IF h = b THEN s
                               ELSE IF h \in hearers THEN OnReport(h, ram[h], packet(relayed))
                               ELSE ram[h]]
  BY DEF Publish
<1>2. /\ flash' = flash /\ ram[b].incarnation \in Epochs
      /\ flash[b].incarnation = ram[b].incarnation
  BY DEF Publish, IInv, Identified, Running
<1>3. own \in Association /\ own.origin = b /\ Good(b, ram[b])
  BY BoundsAssumption
     DEF IInv, TypeOK, Publish, Identified, Running, Record, Association
<1>4. Good(b, s) /\ SameIdentity(ram[b], s) /\ s.originEpochs = ram[b].originEpochs
  BY <1>3, MergeGood, MergeKeepsIdentity, MergeKeepsRegistry DEF Good
<1> HIDE DEF s
<1>5. relayed \subseteq Association
  BY <1>4 DEF Good, Tables
<1>6. packet(relayed) \in Reports
  BY <1>2, <1>4, <1>5
     DEF IInv, TypeOK, Publish, Identified, Running, SameIdentity, Reports
<1>7. packet(relayed).sender = b /\ packet(relayed).incarnation = flash'[b].incarnation
  BY <1>2, <1>4 DEF SameIdentity
<1> HIDE DEF packet
<1> SUFFICES ASSUME NEW h \in Board, NEW r \in ram[h].originEpochs,
                    NEW x \in ram'[h].originEpochs,
                    r.origin = x.origin, r.epoch # x.epoch
             PROVE  x.epoch = flash'[x.origin].incarnation
  BY DEF FollowsOrigin
<1>8. h # b /\ ram'[h] # ram[h]
  BY <1>1, <1>3, <1>4 DEF IInv, Good, Unique, OnePerOrigin
<1>9. ram'[h] = OnReport(h, ram[h], packet(relayed))
  BY <1>1, <1>8
<1>10. x.origin = b /\ x.epoch = packet(relayed).incarnation
  BY <1>6, <1>7, <1>9, ReportRegistry DEF IInv
<1> QED BY <1>7, <1>10

\* When a board starts a new incarnation, its own entry is the only one that
\* changes, to the incarnation it has just persisted.
LEMMA AdvanceRoundFollows ==
  ASSUME IInv, NEW b \in Board, NEW k \in 1 .. MaxElapsed, AdvanceRound(b, k)
  PROVE  FollowsOrigin
<1> DEFINE aged == [ram[b] EXCEPT !.associations =
                      {[a EXCEPT !.age = Aged(a.age, k)] : a \in @}]
<1>1. Good(b, aged) /\ aged.originEpochs = ram[b].originEpochs
  <2>1. k \in Nat
    BY BoundsAssumption
  <2>2. Good(b, aged)
    BY <2>1, AgedGood DEF IInv
  <2>3. ram[b] \in Tables
    BY DEF IInv, TypeOK
  <2> QED BY <2>2, <2>3 DEF Tables
<1>2. \A h \in Board : h # b => ram'[h] = ram[h]
  BY DEF AdvanceRound, IInv, TypeOK
<1>3. \A h \in Board : Unique(ram[h])
  BY DEF IInv, Good
<1>4. CASE k > GenMax - aged.wakeGeneration
  <2>1. PICK e \in RandomIncarnation(b) :
          /\ ram' = [ram EXCEPT ![b] = AcceptOrigin(b, [aged EXCEPT !.incarnation = e,
                                                        !.wakeGeneration = 1], b, e, TRUE)]
          /\ flash' = [flash EXCEPT ![b].incarnation = e, ![b].wakeGeneration = 1]
    BY <1>4 DEF AdvanceRound
  <2> DEFINE wrapped == [aged EXCEPT !.incarnation = e, !.wakeGeneration = 1]
  <2>2. e \in Epochs /\ 1 \in 0 .. GenMax
    BY RandomIncarnationType, BoundsAssumption
  <2> HIDE DEF aged
  <2>3. Good(b, wrapped) /\ wrapped.originEpochs = aged.originEpochs
    BY <1>1, <2>2, RenamedGood DEF Good, Tables
  <2>4. flash'[b].incarnation = e
    BY <2>1 DEF IInv, TypeOK, Tables
  <2> HIDE DEF wrapped
  <2>5. ram'[b] = AcceptOrigin(b, wrapped, b, e, TRUE)
    BY <2>1 DEF IInv, TypeOK, wrapped
  <2>6. \A x \in ram'[b].originEpochs :
          x \in ram[b].originEpochs \/ (x.origin = b /\ x.epoch = e)
    <3>1. \A x \in Accept(wrapped, b, e).originEpochs :
            x \in wrapped.originEpochs \/ (x.origin = b /\ x.epoch = e)
      BY <2>3, AcceptRegistry DEF Good
    <3>2. ram'[b] = wrapped \/ ram'[b] = Accept(wrapped, b, e)
      BY <2>5 DEF AcceptOrigin
    <3> QED BY <1>1, <2>3, <3>1, <3>2
  <2> QED BY <1>2, <1>3, <2>4, <2>6 DEF FollowsOrigin, Unique, OnePerOrigin
<1>5. CASE ~(k > GenMax - aged.wakeGeneration)
  <2>1. ram'[b] = [aged EXCEPT !.wakeGeneration = aged.wakeGeneration + k]
    BY <1>5 DEF AdvanceRound, IInv, TypeOK
  <2> HIDE DEF aged
  <2>2. ram'[b].originEpochs = ram[b].originEpochs
    BY <1>1, <2>1 DEF Good, Tables
  <2> QED BY <1>2, <1>3, <2>2 DEF FollowsOrigin, Unique, OnePerOrigin
<1> QED BY <1>4, <1>5

\* No other step changes an entry.
LEMMA StepFollows == IInv /\ [Next]_vars => FollowsOrigin \/ UNCHANGED vars
<1> SUFFICES ASSUME IInv, NEW b \in Board, Step(b) PROVE FollowsOrigin
  BY DEF Next
<1>1. \A h \in Board : OnePerOrigin(ram[h].originEpochs)
  BY DEF IInv, Good, Unique
<1>2. ASSUME \A h \in Board : ~StaysUp(h) \/ ram'[h].originEpochs \subseteq ram[h].originEpochs
      PROVE  FollowsOrigin
  BY <1>1, <1>2 DEF FollowsOrigin, OnePerOrigin
<1>3. CASE SaveAssociations(b) \/ SaveOriginsStayAwake(b)
  BY <1>2, <1>3 DEF SaveAssociations, SaveOriginsStayAwake
<1>4. CASE TestReset(b)
  <2>1. \A h \in Board : ram'[h].originEpochs \subseteq ram[h].originEpochs
    BY <1>4 DEF TestReset, IInv, TypeOK, Tables
  <2> QED BY <1>2, <2>1
<1>5. CASE Boot(b)
  <2>1. ~StaysUp(b)
    BY <1>5 DEF Boot, StaysUp, Running
  <2>2. \A h \in Board : h # b => ram'[h] = ram[h]
    BY <1>5 DEF Boot, IInv, TypeOK
  <2> QED BY <1>2, <2>1, <2>2
<1>6. CASE SaveOriginsAndSleep(b) \/ Crash(b) \/ ColdReset(b) \/ PowerOff(b)
  <2>1. ~StaysUp(b)
    BY <1>6 DEF SaveOriginsAndSleep, Crash, ColdReset, PowerOff, StaysUp, Running, IInv, TypeOK
  <2>2. \A h \in Board : h # b => ram'[h] = ram[h]
    BY <1>6 DEF SaveOriginsAndSleep, Crash, ColdReset, PowerOff, IInv, TypeOK
  <2> QED BY <1>2, <2>1, <2>2
<1> QED BY <1>3, <1>4, <1>5, <1>6, PublishFollows, AdvanceRoundFollows DEF Step

\* A running board changes a registered incarnation only to the one the origin
\* has now (RegistryFollowsOrigin): nothing relayed rolls an origin back.
THEOREM RegistryNeverRollsBack == Spec => RegistryFollowsOrigin
<1>1. FollowsOrigin \/ UNCHANGED vars
      => [\A b \in Board : \A r \in ram[b].originEpochs, s \in ram'[b].originEpochs :
            (StaysUp(b) /\ r.origin = s.origin /\ r.epoch # s.epoch) =>
               s.epoch = flash'[s.origin].incarnation]_vars
  BY DEF FollowsOrigin
<1> QED BY <1>1, InitIInv, StepIInv, StepFollows, PTL DEF Spec, RegistryFollowsOrigin

-----------------------------------------------------------------------------
(* Where records come from.                                                  *)

\* A record of the same news as r, at least as old.
Descends(x, r) ==
  x.origin = r.origin /\ x.epoch = r.epoch /\ x.gen = r.gen /\ r.age <= x.age

\* Merging adds the record that is merged, or nothing.
LEMMA MergeRecords ==
  ASSUME NEW s \in Tables, NEW a \in Association, NEW direct \in BOOLEAN,
         NEW x \in MergeAssociation(s, a, direct).associations
  PROVE  \/ x \in s.associations
         \/ /\ Merges(s, a, direct)
            /\ x.origin = a.origin /\ x.epoch = a.epoch /\ x.gen = a.gen
            /\ x.age = IF direct THEN 0 ELSE OlderByOne(a.age)
<1> DEFINE new == [a EXCEPT !.age = IF direct THEN 0 ELSE OlderByOne(a.age)]
<1>1. /\ new.origin = a.origin /\ new.epoch = a.epoch /\ new.gen = a.gen
      /\ new.age = IF direct THEN 0 ELSE OlderByOne(a.age)
  BY DEF Association
<1>2. CASE Merges(s, a, direct)
  <2>1. MergeAssociation(s, a, direct).associations =
          {old \in s.associations : old.origin # a.origin} \cup {new}
    BY <1>2 DEF MergeAssociation, Tables
  <2> HIDE DEF new
  <2> QED BY <1>1, <1>2, <2>1
<1>3. CASE ~Merges(s, a, direct)
  BY <1>3 DEF MergeAssociation
<1> QED BY <1>2, <1>3

\* Accepting an origin drops its records of other incarnations.
LEMMA AcceptRecords ==
  ASSUME NEW s \in Tables, NEW o, NEW e
  PROVE  /\ Accept(s, o, e).associations \subseteq s.associations
         /\ \A r \in s.associations :
              (r.origin = o => r.epoch = e) => r \in Accept(s, o, e).associations
         /\ Same(s, o, e) => Accept(s, o, e) = s
<1>1. CASE Same(s, o, e)
  BY <1>1 DEF Accept
<1>2. CASE ~Same(s, o, e)
  <2>1. Accept(s, o, e).associations = {a \in s.associations : a.origin = o => a.epoch = e}
    BY <1>2 DEF Accept, Tables
  <2> QED BY <1>2, <2>1
<1> QED BY <1>1, <1>2

\* A relayed record adds a copy of it that is one round older.
LEMMA EntryRecords ==
  ASSUME NEW b \in Board, NEW s, Good(b, s), NEW a \in Association,
         NEW x \in OnEntry(b, s, a).associations
  PROVE  \/ x \in s.associations
         \/ /\ Accepts(b, s, a.origin, a.epoch, FALSE)
            /\ Merges(Accept(s, a.origin, a.epoch), a, FALSE)
            /\ Descends(x, a) /\ x.age = OlderByOne(a.age)
<1>1. CASE Accepts(b, s, a.origin, a.epoch, FALSE)
  <2> DEFINE t == Accept(s, a.origin, a.epoch)
  <2>1. t \in Tables /\ t.associations \subseteq s.associations
    BY AcceptGood, AcceptRecords DEF Good, Association
  <2>2. x \in MergeAssociation(t, a, FALSE).associations
    BY <1>1 DEF OnEntry
  <2> HIDE DEF t
  <2>3. a.age <= OlderByOne(a.age)
    BY BoundsAssumption DEF OlderByOne, Association
  <2> QED BY <1>1, <2>1, <2>2, <2>3, MergeRecords DEF Descends, t
<1>2. CASE ~Accepts(b, s, a.origin, a.epoch, FALSE)
  BY <1>2 DEF OnEntry
<1> QED BY <1>1, <1>2

\* What a report adds is the sender's own record, or a copy of one that it relays;
\* the sender's own record is not taken a second time as a relayed one.
LEMMA ReportRecords ==
  ASSUME NEW b \in Board, NEW s, Good(b, s), NEW m \in Reports,
         NEW x \in OnReport(b, s, m).associations
  PROVE  \/ x \in s.associations
         \/ x = HeaderRecord(m)
         \/ \E a \in m.relayed : /\ a # HeaderRecord(m) /\ Descends(x, a)
                                 /\ x.age = OlderByOne(a.age)
<1> DEFINE t == Accept(s, m.sender, m.incarnation)
           h == HeaderRecord(m)
           heard == MergeAssociation(t, h, TRUE)
<1>1. m.sender \in Board /\ m.incarnation \in Epochs
  BY DEF Reports
<1>2. Good(b, t) /\ Same(t, m.sender, m.incarnation)
  BY <1>1, AcceptGood
<1>3. h \in Association /\ h.origin = m.sender /\ h.epoch = m.incarnation /\ h.age = 0
  BY BoundsAssumption DEF HeaderRecord, Record, Association, Reports
<1>4. Good(b, heard) /\ heard.originEpochs = t.originEpochs
  <2>1. Same(t, h.origin, h.epoch)
    BY <1>2, <1>3
  <2> QED BY <1>2, <1>3, <2>1, MergeGood, MergeKeepsRegistry DEF Good
<1>5. t.associations \subseteq s.associations
  BY AcceptRecords DEF Good
<1> HIDE DEF t, h
<1>6. ASSUME NEW y \in heard.associations PROVE y \in s.associations \/ y = h
  <2>1. y \in t.associations \/ (y.origin = h.origin /\ y.epoch = h.epoch /\ y.gen = h.gen /\ y.age = 0)
    BY <1>2, <1>3, <1>6, MergeRecords DEF Good
  <2>2. y \in Association
    BY <1>4, <1>6 DEF Good, Tables
  <2> QED BY <1>3, <1>5, <2>1, <2>2 DEF Association
<1>7. ~Merges(heard, h, FALSE)
  <2>1. CASE Merges(t, h, TRUE)
    <3>1. [h EXCEPT !.age = 0] \in heard.associations
      BY <1>2, <2>1 DEF MergeAssociation, Good, Tables
    <3>2. [h EXCEPT !.age = 0] = h
      BY <1>3 DEF Association
    <3> HIDE DEF heard
    <3>3. h \in heard.associations /\ h.gen \in Nat
      BY <1>3, <3>1, <3>2 DEF Association
    <3> QED BY <1>3, <3>3 DEF Merges
  <2>2. CASE ~Merges(t, h, TRUE)
    BY <2>2 DEF Merges, MergeAssociation
  <2> QED BY <2>1, <2>2
<1> DEFINE a == CHOOSE a \in m.relayed : TRUE
<1> HIDE DEF heard
<1>8. OnReport(b, s, m) \in {s, heard} \/
        (m.relayed # {} /\ OnReport(b, s, m) = OnEntry(b, heard, a))
  BY DEF OnReport, heard, t, h
<1>9. CASE OnReport(b, s, m) \in {s, heard}
  BY <1>6, <1>9 DEF h
<1>10. CASE m.relayed # {} /\ OnReport(b, s, m) = OnEntry(b, heard, a)
  <2>1. a \in m.relayed /\ a \in Association
    BY <1>10 DEF Reports
  <2> HIDE DEF a
  <2>2. \/ x \in heard.associations
        \/ /\ Merges(Accept(heard, a.origin, a.epoch), a, FALSE)
           /\ Descends(x, a) /\ x.age = OlderByOne(a.age)
    BY <1>4, <1>10, <2>1, EntryRecords
  <2>3. a = h => Accept(heard, a.origin, a.epoch) = heard
    BY <1>2, <1>3, <1>4, AcceptRecords DEF Same, Good
  <2> QED BY <1>6, <1>7, <2>1, <2>2, <2>3 DEF h
<1> QED BY <1>8, <1>9, <1>10

-----------------------------------------------------------------------------
(* No immortal rumours.                                                      *)

KnownBefore(x) == \E r \in KnownRecords : Descends(x, r)

\* A running board, with its identity persisted, publishes its own record.
OwnBroadcast(x) ==
  /\ mode[x.origin] = "awake" /\ x.age = 0
  /\ x.epoch = ram[x.origin].incarnation /\ x.gen = ram[x.origin].wakeGeneration
  /\ flash[x.origin].incarnation # NoEpoch /\ flash' = flash

Accounted(S) == \A x \in S : KnownBefore(x) \/ OwnBroadcast(x)

\* What is in a table is known.
LEMMA TablesKnown ==
  ASSUME IInv, NEW h \in Board, NEW r \in ram[h].associations \cup flash[h].associations
  PROVE  r \in Association /\ KnownBefore(r)
<1>1. r \in Association
  BY DEF IInv, TypeOK, Tables
<1>2. r \in KnownRecords
  BY DEF KnownRecords
<1>3. Descends(r, r)
  BY <1>1 DEF Descends, Association
<1> QED BY <1>1, <1>2, <1>3 DEF KnownBefore

\* Most steps only keep, copy or drop records.
LEMMA CopiesAccounted ==
  ASSUME IInv,
         \A h \in Board : /\ ram'[h].associations \subseteq ram[h].associations \cup flash[h].associations
                          /\ flash'[h].associations \subseteq ram[h].associations \cup flash[h].associations
  PROVE  Accounted(KnownRecords')
<1> SUFFICES ASSUME NEW x \in KnownRecords' PROVE KnownBefore(x)
  BY DEF Accounted
<1>1. PICK h \in Board : x \in ram'[h].associations \cup flash'[h].associations
  BY DEF KnownRecords
<1> QED BY <1>1, TablesKnown

\* What a broadcast adds is its sender's own record, or what it relays.
LEMMA PublishAccounted ==
  ASSUME IInv, NEW b \in Board, Publish(b)
  PROVE  Accounted(KnownRecords')
<1> DEFINE own == Record(b, ram[b].incarnation, ram[b].wakeGeneration, 0)
           s == MergeAssociation(ram[b], own, TRUE)
           packet(relayed) == [sender |-> b, incarnation |-> s.incarnation,
                               wakeGeneration |-> s.wakeGeneration,
                               relayed |-> relayed]
<1>2. /\ flash' = flash /\ mode[b] = "awake" /\ flash[b].incarnation # NoEpoch
      /\ ram[b].incarnation \in Epochs /\ ram[b].wakeGeneration \in 1 .. GenMax
  BY DEF Publish, IInv, Identified, Running
<1>3. /\ own \in Association /\ own.origin = b /\ own.age = 0
      /\ own.epoch = ram[b].incarnation /\ own.gen = ram[b].wakeGeneration
      /\ Good(b, ram[b])
  BY <1>2, BoundsAssumption DEF IInv, TypeOK, Record, Association
<1>4. Good(b, s) /\ SameIdentity(ram[b], s)
  BY <1>3, MergeGood, MergeKeepsIdentity DEF Good
<1>5. OwnBroadcast(own)
  BY <1>2, <1>3 DEF OwnBroadcast
<1> HIDE DEF own
<1>6. ASSUME NEW x \in s.associations PROVE x \in ram[b].associations \/ x = own
  <2>1. \/ x \in ram[b].associations
        \/ x.origin = own.origin /\ x.epoch = own.epoch /\ x.gen = own.gen /\ x.age = 0
    <3>1. ram[b] \in Tables /\ x \in MergeAssociation(ram[b], own, TRUE).associations
      BY <1>3, <1>6 DEF Good
    <3> HIDE DEF s
    <3> QED BY <1>3, <3>1, MergeRecords
  <2>2. x \in Association
    BY <1>4, <1>6 DEF Good, Tables
  <2> QED BY <1>3, <2>1, <2>2 DEF Association
<1> HIDE DEF s
<1>1. PICK relayed \in {{}} \cup {{a} : a \in {x \in s.associations : IsFresh(x)}},
           hearers \in SUBSET {h \in Board \ {b} : Running(h)} :
        ram' = [h \in Board |-> IF h = b THEN s
                               ELSE IF h \in hearers THEN OnReport(h, ram[h], packet(relayed))
                               ELSE ram[h]]
  BY DEF Publish, s, own
<1>7. relayed \subseteq s.associations /\ relayed \subseteq Association
  BY <1>4 DEF Good, Tables
<1>8. packet(relayed) \in Reports
  BY <1>2, <1>4, <1>7 DEF IInv, TypeOK, SameIdentity, Reports
<1>9. HeaderRecord(packet(relayed)) = own
  BY <1>4 DEF HeaderRecord, SameIdentity, own
<1>10. packet(relayed).relayed = relayed
  OBVIOUS
<1> HIDE DEF packet
<1>11. ASSUME NEW h \in Board, NEW x \in ram'[h].associations
       PROVE  KnownBefore(x) \/ OwnBroadcast(x)
  <2>1. CASE h = b
    BY <1>1, <1>5, <1>6, <1>11, <2>1, TablesKnown
  <2>2. CASE h # b /\ ram'[h] = ram[h]
    BY <1>11, <2>2, TablesKnown
  <2>3. CASE ram'[h] = OnReport(h, ram[h], packet(relayed))
    <3>1. Good(h, ram[h])
      BY DEF IInv
    <3>2. \/ x \in ram[h].associations \/ x = own
          \/ \E a \in relayed : a # own /\ Descends(x, a)
      BY <1>8, <1>9, <1>10, <1>11, <2>3, <3>1, ReportRecords
    <3>3. ASSUME NEW a \in relayed, a # own, Descends(x, a) PROVE KnownBefore(x)
      <4>1. a \in ram[b].associations
        BY <1>6, <1>7, <3>3
      <4>2. a \in KnownRecords
        BY <4>1 DEF KnownRecords
      <4> QED BY <3>3, <4>2 DEF KnownBefore
    <3> QED BY <1>5, <3>2, <3>3, TablesKnown
  <2> QED BY <1>1, <2>1, <2>2, <2>3
<1>12. ASSUME NEW h \in Board, NEW x \in flash'[h].associations PROVE KnownBefore(x)
  BY <1>2, <1>12, TablesKnown
<1>13. \A x \in KnownRecords' : \E h \in Board : x \in ram'[h].associations \cup flash'[h].associations
  BY DEF KnownRecords
<1> QED BY <1>11, <1>12, <1>13 DEF Accounted

\* Rounds that pass make records older and change nothing else about them; a
\* new incarnation drops some.
LEMMA AdvanceRoundAges ==
  ASSUME IInv, NEW b \in Board, NEW k \in 1 .. MaxElapsed, AdvanceRound(b, k)
  PROVE  /\ \A h \in Board : h # b => ram'[h] = ram[h]
         /\ \A x \in ram'[b].associations :
              \E a \in ram[b].associations : x = [a EXCEPT !.age = Aged(a.age, k)]
<1> DEFINE older(a) == [a EXCEPT !.age = Aged(a.age, k)]
           aged == [ram[b] EXCEPT !.associations = {older(a) : a \in @}]
<1>1. Good(b, aged)
  <2>1. k \in Nat
    BY BoundsAssumption
  <2> QED BY <2>1, AgedGood DEF IInv
<1>2. aged.associations = {older(a) : a \in ram[b].associations}
  BY DEF IInv, TypeOK, Tables
<1> HIDE DEF aged
<1>3. ram'[b].associations \subseteq aged.associations
  <2>1. CASE k > GenMax - aged.wakeGeneration
    <3>1. PICK e \in RandomIncarnation(b) :
            ram' = [ram EXCEPT ![b] = AcceptOrigin(b, [aged EXCEPT !.incarnation = e,
                                                         !.wakeGeneration = 1], b, e, TRUE)]
      BY <2>1 DEF AdvanceRound, aged
    <3> DEFINE wrapped == [aged EXCEPT !.incarnation = e, !.wakeGeneration = 1]
    <3>2. wrapped \in Tables /\ wrapped.associations = aged.associations
      <4>1. e \in Epochs /\ 1 \in 0 .. GenMax
        BY RandomIncarnationType, BoundsAssumption
      <4>2. aged \in Tables
        BY <1>1 DEF Good
      <4> QED BY <4>1, <4>2 DEF Tables
    <3> HIDE DEF wrapped
    <3>3. ram'[b] = wrapped \/ ram'[b] = Accept(wrapped, b, e)
      BY <3>1 DEF AcceptOrigin, IInv, TypeOK, wrapped
    <3> QED BY <3>2, <3>3, AcceptRecords
  <2>2. CASE ~(k > GenMax - aged.wakeGeneration)
    <3>1. ram'[b] = [aged EXCEPT !.wakeGeneration = aged.wakeGeneration + k]
      BY <2>2 DEF AdvanceRound, IInv, TypeOK, aged
    <3> QED BY <1>1, <3>1 DEF Good, Tables
  <2> QED BY <2>1, <2>2
<1>4. \A h \in Board : h # b => ram'[h] = ram[h]
  BY DEF AdvanceRound, IInv, TypeOK
<1>5. \A x \in ram'[b].associations : \E a \in ram[b].associations : x = older(a)
  BY <1>2, <1>3
<1> QED BY <1>4, <1>5

\* A round only makes records older.
LEMMA AdvanceRoundAccounted ==
  ASSUME IInv, NEW b \in Board, NEW k \in 1 .. MaxElapsed, AdvanceRound(b, k)
  PROVE  Accounted(KnownRecords')
<1> DEFINE aged == [ram[b] EXCEPT !.associations =
                      {[a EXCEPT !.age = Aged(a.age, k)] : a \in @}]
<1>1. ASSUME NEW x \in ram'[b].associations PROVE KnownBefore(x)
  <2>1. PICK a \in ram[b].associations : x = [a EXCEPT !.age = Aged(a.age, k)]
    BY <1>1, AdvanceRoundAges
  <2>2. a \in Association
    BY TablesKnown
  <2>3. k \in Nat
    BY BoundsAssumption
  <2>4. Descends(x, a)
    BY <2>1, <2>2, <2>3, BoundsAssumption DEF Descends, Aged, Association
  <2> QED BY <2>1, <2>4 DEF KnownBefore, KnownRecords
<1>2. \A h \in Board : /\ h # b => ram'[h] = ram[h]
                       /\ flash'[h].associations = flash[h].associations
  <2>1. \A h \in Board : h # b => ram'[h] = ram[h]
    BY AdvanceRoundAges
  <2>2. \A h \in Board : flash'[h].associations = flash[h].associations
    <3>1. CASE k > GenMax - aged.wakeGeneration
      <4>1. PICK e : flash' = [flash EXCEPT ![b].incarnation = e, ![b].wakeGeneration = 1]
        BY <3>1 DEF AdvanceRound, aged
      <4> QED BY <4>1 DEF IInv, TypeOK, Tables
    <3>2. CASE ~(k > GenMax - aged.wakeGeneration)
      <4>1. flash' = [flash EXCEPT ![b].wakeGeneration = aged.wakeGeneration + k]
        BY <3>2 DEF AdvanceRound, aged
      <4> QED BY <4>1 DEF IInv, TypeOK, Tables
    <3> QED BY <3>1, <3>2
  <2> QED BY <2>1, <2>2
<1>3. \A x \in KnownRecords' : \E h \in Board : x \in ram'[h].associations \cup flash'[h].associations
  BY DEF KnownRecords
<1> QED BY <1>1, <1>2, <1>3, TablesKnown DEF Accounted

\* Every record that a step adds has an origin.
LEMMA StepAccounted == ASSUME IInv, [Next]_vars PROVE Accounted(KnownRecords')
<1>1. ASSUME NEW b \in Board, Boot(b) PROVE Accounted(KnownRecords')
  <2>1. PICK e : LET gen == FirstRound(flash[b])
                     started == [Reloaded(flash[b]) EXCEPT !.incarnation = e,
                                                           !.wakeGeneration = gen]
                 IN  /\ ram' = [ram EXCEPT ![b] = AcceptOrigin(b, started, b, e, TRUE)]
                     /\ flash' = [flash EXCEPT ![b].incarnation = e, ![b].wakeGeneration = gen]
                     /\ e \in Epochs
    BY <1>1, RandomIncarnationType DEF Boot, IInv, TypeOK, Tables
  <2> DEFINE gen == FirstRound(flash[b])
             started == [Reloaded(flash[b]) EXCEPT !.incarnation = e, !.wakeGeneration = gen]
  <2>2. flash[b] \in Tables
    BY DEF IInv, TypeOK
  <2>3. Reloaded(flash[b]) \in Tables /\ Reloaded(flash[b]).associations \subseteq flash[b].associations
    BY <2>2 DEF Reloaded, Tables
  <2>4. gen \in 0 .. GenMax
    BY <2>2, BoundsAssumption DEF FirstRound, Tables
  <2> HIDE DEF gen
  <2>5. started \in Tables /\ started.associations \subseteq flash[b].associations
    BY <2>1, <2>3, <2>4 DEF Tables
  <2>6. ram' = [ram EXCEPT ![b] = AcceptOrigin(b, started, b, e, TRUE)]
    BY <2>1 DEF gen
  <2> HIDE DEF started
  <2>7. ram'[b].associations \subseteq flash[b].associations
    BY <2>5, <2>6, AcceptRecords DEF AcceptOrigin, IInv, TypeOK
  <2>8. \A h \in Board : h # b => ram'[h] = ram[h]
    BY <2>6 DEF IInv, TypeOK
  <2>9. \A h \in Board : flash'[h].associations = flash[h].associations
    BY <2>1 DEF IInv, TypeOK, Tables
  <2> QED BY <2>7, <2>8, <2>9, CopiesAccounted
<1>2. ASSUME NEW b \in Board,
             TestReset(b) \/ SaveAssociations(b) \/ SaveOriginsStayAwake(b) \/ SaveOriginsAndSleep(b)
               \/ Crash(b) \/ ColdReset(b) \/ PowerOff(b)
      PROVE  Accounted(KnownRecords')
  <2> USE DEF IInv, TypeOK, Tables
  <2>1. CASE TestReset(b)
    BY <2>1, CopiesAccounted DEF TestReset, Blank
  <2>2. CASE SaveAssociations(b) \/ SaveOriginsStayAwake(b)
    BY <2>2, CopiesAccounted DEF SaveAssociations, SaveOriginsStayAwake
  <2>3. CASE SaveOriginsAndSleep(b)
    BY <2>3, CopiesAccounted DEF SaveOriginsAndSleep, Blank
  <2>4. CASE Crash(b) \/ ColdReset(b) \/ PowerOff(b)
    BY <2>4, CopiesAccounted DEF Crash, ColdReset, PowerOff, Blank
  <2> QED BY <1>2, <2>1, <2>2, <2>3, <2>4
<1>3. CASE UNCHANGED vars
  BY <1>3, CopiesAccounted DEF vars
<1> QED BY <1>1, <1>2, <1>3, PublishAccounted, AdvanceRoundAccounted DEF Next, Step

\* No immortal rumours (RumoursOnlyAge): resets, crashes, checkpoints and relays
\* included, a record that appears anywhere is its origin's broadcast of this
\* round or as old as some copy of the same news.
THEOREM NoImmortalRumours == Spec => RumoursOnlyAge
<1>1. Accounted(KnownRecords') =>
        [\A s \in KnownRecords' \ KnownRecords :
           \/ /\ mode[s.origin] = "awake" /\ s.age = 0
              /\ s.epoch = ram[s.origin].incarnation /\ s.gen = ram[s.origin].wakeGeneration
           \/ \E r \in KnownRecords :
                /\ r.origin = s.origin /\ r.epoch = s.epoch /\ r.gen = s.gen
                /\ r.age <= s.age]_vars
  BY DEF Accounted, KnownBefore, OwnBroadcast, Descends
<1>2. IInv /\ [Next]_vars => Accounted(KnownRecords')
  BY StepAccounted
<1> QED BY <1>1, <1>2, InitIInv, StepIInv, PTL DEF Spec, RumoursOnlyAge

-----------------------------------------------------------------------------
(* Nobody is ahead of an origin.                                             *)

\* While the identity is persisted, the round number is too.
Numbered ==
  \A b \in Board :
    Running(b) /\ flash[b].incarnation # NoEpoch =>
      ram[b].wakeGeneration = flash[b].wakeGeneration

\* A random incarnation is in no record.
LEMMA RandomIsUnused ==
  ASSUME NEW o \in Board, NEW e \in RandomIncarnation(o), NEW r \in KnownRecords, r.origin = o
  PROVE  r.epoch # e
<1>1. PICK b \in Board : r \in ram[b].associations \cup flash[b].associations
  BY DEF KnownRecords
<1>2. r.epoch \in EpochsOfTables(o, ram[b]) \cup EpochsOfTables(o, flash[b])
  BY <1>1 DEF EpochsOfTables
<1>3. r.epoch \in EpochsOf(o)
  BY <1>2 DEF EpochsOf
<1> QED BY <1>3 DEF RandomIncarnation

\* A broadcast changes no board's identity.
LEMMA PublishKeepsIdentities ==
  ASSUME IInv, NEW b \in Board, Publish(b)
  PROVE  \A h \in Board : SameIdentity(ram[h], ram'[h])
<1> DEFINE own == Record(b, ram[b].incarnation, ram[b].wakeGeneration, 0)
           s == MergeAssociation(ram[b], own, TRUE)
           packet(relayed) == [sender |-> b, incarnation |-> s.incarnation,
                               wakeGeneration |-> s.wakeGeneration,
                               relayed |-> relayed]
<1>1. /\ ram[b].incarnation \in Epochs /\ ram[b].wakeGeneration \in 1 .. GenMax
      /\ Good(b, ram[b])
  BY DEF Publish, IInv, Identified, Running
<1>2. own \in Association /\ own.origin = b
  BY <1>1, BoundsAssumption DEF Record, Association
<1>3. Good(b, s) /\ SameIdentity(ram[b], s)
  BY <1>1, <1>2, MergeGood, MergeKeepsIdentity DEF Good
<1>4. PICK relayed \in {{}} \cup {{a} : a \in {x \in s.associations : IsFresh(x)}},
           hearers \in SUBSET {h \in Board \ {b} : Running(h)} :
        ram' = [h \in Board |-> IF h = b THEN s
                               ELSE IF h \in hearers THEN OnReport(h, ram[h], packet(relayed))
                               ELSE ram[h]]
  BY DEF Publish
<1> HIDE DEF s
<1>5. relayed \subseteq Association
  BY <1>3 DEF Good, Tables
<1>6. packet(relayed) \in Reports
  BY <1>1, <1>3, <1>5 DEF SameIdentity, Reports
<1> HIDE DEF packet
<1> QED BY <1>3, <1>4, <1>6, ReportKeepsIdentity DEF IInv, SameIdentity

\* An origin that is registered, or not, leaves the identity alone.
LEMMA AcceptOriginKeepsIdentity ==
  ASSUME NEW s \in Tables, NEW b, NEW o, NEW e, NEW direct
  PROVE  SameIdentity(s, AcceptOrigin(b, s, o, e, direct))
<1>1. SameIdentity(s, s)
  BY DEF SameIdentity
<1>2. SameIdentity(s, Accept(s, o, e))
  BY AcceptKeepsIdentity
<1> QED BY <1>1, <1>2 DEF AcceptOrigin

\* What a step does to a persisted identity.
Advances(o) ==
  \/ flash'[o].incarnation = NoEpoch
  \/ /\ flash'[o].incarnation = flash[o].incarnation
     /\ flash'[o].wakeGeneration >= flash[o].wakeGeneration
  \/ flash'[o].incarnation \in RandomIncarnation(o)

\* A persisted identity keeps its incarnation and moves on, or is a new one.
LEMMA IdentityAdvances ==
  ASSUME IInv, Numbered, [Next]_vars
  PROVE  Numbered' /\ \A o \in Board : Advances(o)
<1> DEFINE
      Kept(x) == /\ flash'[x].incarnation = flash[x].incarnation
                 /\ flash'[x].wakeGeneration = flash[x].wakeGeneration
<1>1. ASSUME NEW b \in Board,
             \A x \in Board : x # b => /\ mode'[x] = mode[x] /\ Kept(x)
                                       /\ ram'[x].wakeGeneration = ram[x].wakeGeneration,
             Advances(b),
             Running(b)' /\ flash'[b].incarnation # NoEpoch =>
               ram'[b].wakeGeneration = flash'[b].wakeGeneration
      PROVE  Numbered' /\ \A o \in Board : Advances(o)
  <2>1. ASSUME NEW o \in Board PROVE Advances(o)
    BY <1>1 DEF IInv, TypeOK, Tables, Advances
  <2>2. Numbered'
    BY <1>1 DEF Numbered, Running
  <2> QED BY <2>1, <2>2
<1>2. ASSUME NEW b \in Board, Boot(b) PROVE Numbered' /\ \A o \in Board : Advances(o)
  <2> DEFINE gen == FirstRound(flash[b])
  <2>1. PICK e \in IF flash[b].incarnation = NoEpoch THEN RandomIncarnation(b)
                   ELSE {flash[b].incarnation} :
          /\ ram' = [ram EXCEPT ![b] =
                       AcceptOrigin(b, [Reloaded(flash[b]) EXCEPT !.incarnation = e,
                                                                  !.wakeGeneration = gen],
                                    b, e, TRUE)]
          /\ flash' = [flash EXCEPT ![b].incarnation = e, ![b].wakeGeneration = gen]
    BY <1>2 DEF Boot
  <2> DEFINE started == [Reloaded(flash[b]) EXCEPT !.incarnation = e, !.wakeGeneration = gen]
  <2>2. flash[b] \in Tables /\ e \in Epochs
    BY <2>1, RandomIncarnationType DEF IInv, TypeOK, Tables
  <2>3. gen \in 1 .. GenMax /\ gen >= flash[b].wakeGeneration /\ gen \in 0 .. GenMax
    BY <2>2, BoundsAssumption DEF FirstRound, Tables
  <2> HIDE DEF gen
  <2>4. started \in Tables /\ started.wakeGeneration = gen
    <3>1. Reloaded(flash[b]) \in Tables
      BY <2>2 DEF Reloaded, Tables
    <3>2. e \in Epochs \cup {NoEpoch}
      BY <2>2
    <3> QED BY <2>3, <3>1, <3>2 DEF Tables
  <2>5. flash'[b].incarnation = e /\ flash'[b].wakeGeneration = gen
    BY <2>1 DEF IInv, TypeOK, Tables
  <2>61. ram' = [ram EXCEPT ![b] = AcceptOrigin(b, started, b, e, TRUE)]
    BY <2>1
  <2> HIDE DEF started
  <2>62. SameIdentity(started, ram'[b])
    BY <2>4, <2>61, AcceptOriginKeepsIdentity DEF IInv, TypeOK
  <2>6. ram'[b].wakeGeneration = gen
    BY <2>4, <2>62 DEF SameIdentity
  <2>7. Advances(b)
    BY <2>1, <2>3, <2>5 DEF Advances
  <2>8. \A x \in Board : x # b => mode'[x] = mode[x] /\ Kept(x) /\ ram'[x] = ram[x]
    BY <1>2, <2>1 DEF Boot, IInv, TypeOK
  <2> QED BY <1>1, <2>5, <2>6, <2>7, <2>8
<1>3. ASSUME NEW b \in Board, Publish(b) PROVE Numbered' /\ \A o \in Board : Advances(o)
  <2>1. mode' = mode /\ flash' = flash
    BY <1>3 DEF Publish
  <2>2. \A x \in Board : SameIdentity(ram[x], ram'[x])
    BY <1>3, PublishKeepsIdentities
  <2> QED BY <1>1, <2>1, <2>2 DEF Numbered, Running, Advances, SameIdentity, IInv, TypeOK, Tables
<1>4. ASSUME NEW b \in Board, NEW k \in 1 .. MaxElapsed, AdvanceRound(b, k)
      PROVE  Numbered' /\ \A o \in Board : Advances(o)
  <2> DEFINE aged == [ram[b] EXCEPT !.associations =
                        {[a EXCEPT !.age = Aged(a.age, k)] : a \in @}]
  <2>1. aged \in Tables /\ aged.wakeGeneration = ram[b].wakeGeneration
    <3>1. k \in Nat
      BY BoundsAssumption
    <3> QED BY <3>1, AgedGood DEF IInv, Good, SameIdentity
  <2>2. /\ mode' = mode /\ flash[b].wakeGeneration = ram[b].wakeGeneration
        /\ flash[b].wakeGeneration \in 0 .. GenMax
    BY <1>4 DEF AdvanceRound, Numbered, Running, IInv, TypeOK, Tables
  <2>3. CASE k > GenMax - aged.wakeGeneration
    <3>1. PICK e \in RandomIncarnation(b) :
            /\ ram' = [ram EXCEPT ![b] = AcceptOrigin(b, [aged EXCEPT !.incarnation = e,
                                                          !.wakeGeneration = 1], b, e, TRUE)]
            /\ flash' = [flash EXCEPT ![b].incarnation = e, ![b].wakeGeneration = 1]
      BY <1>4, <2>3 DEF AdvanceRound
    <3> DEFINE wrapped == [aged EXCEPT !.incarnation = e, !.wakeGeneration = 1]
    <3>2. e \in Epochs /\ 1 \in 0 .. GenMax
      BY RandomIncarnationType, BoundsAssumption
    <3> HIDE DEF aged
    <3>3. wrapped \in Tables /\ wrapped.wakeGeneration = 1
      BY <2>1, <3>2 DEF Tables
    <3>4. flash'[b].incarnation = e /\ flash'[b].wakeGeneration = 1
      BY <3>1 DEF IInv, TypeOK, Tables
    <3>5. ram' = [ram EXCEPT ![b] = AcceptOrigin(b, wrapped, b, e, TRUE)]
      BY <3>1
    <3> HIDE DEF wrapped
    <3>6. ram'[b].wakeGeneration = 1
      <4>1. SameIdentity(wrapped, ram'[b])
        BY <3>3, <3>5, AcceptOriginKeepsIdentity DEF IInv, TypeOK
      <4> QED BY <3>3, <4>1 DEF SameIdentity
    <3>7. \A x \in Board : x # b => Kept(x) /\ ram'[x] = ram[x]
      BY <3>1, <3>5 DEF IInv, TypeOK
    <3> QED BY <1>1, <2>2, <3>4, <3>6, <3>7 DEF Advances
  <2>4. CASE ~(k > GenMax - aged.wakeGeneration)
    <3> DEFINE gen == aged.wakeGeneration + k
    <3>1. /\ ram' = [ram EXCEPT ![b] = [aged EXCEPT !.wakeGeneration = gen]]
          /\ flash' = [flash EXCEPT ![b].wakeGeneration = gen]
      BY <1>4, <2>4 DEF AdvanceRound
    <3> HIDE DEF aged
    <3>2. gen \in Nat /\ gen >= flash[b].wakeGeneration
      BY <2>1, <2>2, BoundsAssumption
    <3> HIDE DEF gen
    <3>3. ram'[b].wakeGeneration = gen
      BY <2>1, <3>1 DEF IInv, TypeOK, Tables
    <3>4. flash'[b].wakeGeneration = gen /\ flash'[b].incarnation = flash[b].incarnation
      BY <3>1 DEF IInv, TypeOK, Tables
    <3>5. \A x \in Board : x # b => Kept(x) /\ ram'[x] = ram[x]
      BY <3>1 DEF IInv, TypeOK
    <3> QED BY <1>1, <2>2, <3>2, <3>3, <3>4, <3>5 DEF Advances
  <2> QED BY <2>3, <2>4
<1>5. ASSUME NEW b \in Board, SaveAssociations(b) \/ SaveOriginsStayAwake(b)
      PROVE  Numbered' /\ \A o \in Board : Advances(o)
  <2>1. ram' = ram /\ Running(b) /\ \A x \in Board : x # b => mode'[x] = mode[x]
    BY <1>5 DEF SaveAssociations, SaveOriginsStayAwake, Running, IInv, TypeOK
  <2>2. \A x \in Board : Kept(x)
    BY <1>5 DEF SaveAssociations, SaveOriginsStayAwake, IInv, TypeOK, Tables
  <2>3. Advances(b)
    BY <2>2 DEF Advances, IInv, TypeOK, Tables
  <2> QED BY <1>1, <2>1, <2>2, <2>3 DEF Numbered
<1>6. ASSUME NEW b \in Board, SaveOriginsAndSleep(b)
      PROVE  Numbered' /\ \A o \in Board : Advances(o)
  <2>1. PICK gen \in {ram[b].wakeGeneration} \cup
                     IF flash[b].incarnation = NoEpoch THEN {0} ELSE {} :
          flash' = [flash EXCEPT ![b].originEpochs = ram[b].originEpochs,
                                 ![b].wakeGeneration = gen]
    BY <1>6 DEF SaveOriginsAndSleep
  <2>2. flash'[b].incarnation = flash[b].incarnation /\ flash'[b].wakeGeneration = gen
    BY <2>1 DEF IInv, TypeOK, Tables
  <2>3. flash[b].incarnation # NoEpoch =>
          gen = flash[b].wakeGeneration /\ flash[b].wakeGeneration \in Nat
    BY <1>6, <2>1 DEF SaveOriginsAndSleep, Numbered, Running, IInv, TypeOK, Tables
  <2>4. Advances(b)
    BY <2>2, <2>3 DEF Advances
  <2>5. \A x \in Board : x # b => mode'[x] = mode[x] /\ Kept(x) /\ ram'[x] = ram[x]
    BY <1>6, <2>1 DEF SaveOriginsAndSleep, IInv, TypeOK
  <2>6. ~Running(b)'
    BY <1>6 DEF SaveOriginsAndSleep, Running, IInv, TypeOK
  <2> QED BY <1>1, <2>4, <2>5, <2>6
<1>7. ASSUME NEW b \in Board, Crash(b) \/ PowerOff(b)
      PROVE  Numbered' /\ \A o \in Board : Advances(o)
  <2>1. /\ flash' = flash /\ ~Running(b)'
        /\ \A x \in Board : x # b => mode'[x] = mode[x] /\ ram'[x] = ram[x]
    BY <1>7 DEF Crash, PowerOff, Running, IInv, TypeOK
  <2>2. Advances(b)
    BY <2>1 DEF Advances, IInv, TypeOK, Tables
  <2> QED BY <1>1, <2>1, <2>2
<1>8. ASSUME NEW b \in Board, TestReset(b) \/ ColdReset(b)
      PROVE  Numbered' /\ \A o \in Board : Advances(o)
  <2>1. flash'[b].incarnation = NoEpoch
    BY <1>8 DEF TestReset, ColdReset, Blank, IInv, TypeOK
  <2>2. \A x \in Board : x # b => mode'[x] = mode[x] /\ Kept(x) /\ ram'[x] = ram[x]
    BY <1>8 DEF TestReset, ColdReset, IInv, TypeOK
  <2> QED BY <1>1, <2>1, <2>2 DEF Advances
<1>9. CASE UNCHANGED vars
  BY <1>9 DEF vars, Numbered, Running, Advances, IInv, TypeOK, Tables
<1> QED BY <1>2, <1>3, <1>4, <1>5, <1>6, <1>7, <1>8, <1>9 DEF Next, Step

\* Nobody holds a record of a board's present incarnation from a round to come.
THEOREM NobodyAhead == Spec => []NoFutureGeneration
<1>1. Init => Numbered /\ NoFutureGeneration
  BY DEF Init, Numbered, Running, NoFutureGeneration, KnownRecords, Blank
<1>2. ASSUME IInv, Numbered, NoFutureGeneration, [Next]_vars
      PROVE  (Numbered /\ NoFutureGeneration)'
  <2>1. Numbered' /\ \A o \in Board : Advances(o)
    BY <1>2, IdentityAdvances
  <2>2. ASSUME NEW a \in KnownRecords', a.epoch = flash'[a.origin].incarnation
        PROVE  a.gen <= flash'[a.origin].wakeGeneration
    <3>1. a \in Association /\ flash'[a.origin] \in Tables
      <4>1. TypeOK'
        BY <1>2, StepIInv DEF IInv
      <4>2. PICK b \in Board : a \in ram'[b].associations \cup flash'[b].associations
        BY <2>2 DEF KnownRecords
      <4>3. ram'[b] \in Tables /\ flash'[b] \in Tables
        BY <4>1 DEF TypeOK
      <4>4. a \in Association
        BY <4>2, <4>3 DEF Tables
      <4> QED BY <4>1, <4>4 DEF TypeOK, Association
    <3>2. /\ a.origin \in Board /\ a.epoch # NoEpoch
          /\ a.gen \in Nat /\ flash'[a.origin].wakeGeneration \in Nat
      <4>1. a.origin \in Board /\ a.epoch \in Epochs /\ a.gen \in 1 .. GenMax
        BY <3>1 DEF Association
      <4>2. flash'[a.origin].wakeGeneration \in 0 .. GenMax
        BY <3>1 DEF Tables
      <4>3. a.epoch # NoEpoch
        BY <4>1, EpochsAssumption
      <4>4. a.gen \in Nat /\ flash'[a.origin].wakeGeneration \in Nat
        BY <4>1, <4>2, BoundsAssumption
      <4> QED BY <4>1, <4>3, <4>4
    <3>3. CASE OwnBroadcast(a)
      BY <1>2, <3>2, <3>3 DEF OwnBroadcast, Numbered, Running
    <3>4. CASE KnownBefore(a)
      <4>1. PICK r \in KnownRecords : r.origin = a.origin /\ r.epoch = a.epoch /\ r.gen = a.gen
        BY <3>4 DEF KnownBefore, Descends
      <4>2. flash'[a.origin].incarnation \notin RandomIncarnation(a.origin)
        BY <2>2, <3>2, <4>1, RandomIsUnused
      <4>3. /\ flash'[a.origin].incarnation = flash[a.origin].incarnation
            /\ flash'[a.origin].wakeGeneration >= flash[a.origin].wakeGeneration
            /\ flash[a.origin].wakeGeneration \in Nat
        BY <1>2, <2>1, <2>2, <3>2, <4>2 DEF Advances, IInv, TypeOK, Tables
      <4>4. a.gen <= flash[a.origin].wakeGeneration
        BY <1>2, <2>2, <4>1, <4>3 DEF NoFutureGeneration
      <4> QED BY <3>2, <4>3, <4>4
    <3> QED BY <1>2, <2>2, <3>3, <3>4, StepAccounted DEF Accounted
  <2>3. NoFutureGeneration'
    BY <2>2 DEF NoFutureGeneration
  <2> QED BY <2>1, <2>3
<1>3. IInv /\ Numbered /\ NoFutureGeneration /\ [Next]_vars => (Numbered /\ NoFutureGeneration)'
  BY <1>2
<1> QED BY <1>1, <1>3, InitIInv, StepIInv, PTL DEF Spec

-----------------------------------------------------------------------------
(* Rounds of the records that are kept.                                      *)

\* From s to t no origin's record goes back to an older round of its incarnation.
NoOlder(s, t) ==
  \A r \in s.associations, x \in t.associations :
    (r.origin = x.origin /\ r.epoch = x.epoch) => x.gen >= r.gen

\* Tables that keep their records, or lose some, hold no older ones.
LEMMA FewerIsNoOlder ==
  ASSUME NEW s \in Tables, NEW t, OnePerOrigin(s.associations),
         t.associations \subseteq s.associations
  PROVE  NoOlder(s, t)
<1> SUFFICES ASSUME NEW r \in s.associations, NEW x \in t.associations,
                    r.origin = x.origin
             PROVE  x.gen >= r.gen
  BY DEF NoOlder
<1>1. x = r
  BY DEF OnePerOrigin
<1>2. r.gen \in 1 .. GenMax
  BY DEF Tables, Association
<1> QED BY <1>1, <1>2, BoundsAssumption

\* mergeAssociation() compares rounds before it replaces a record, ...
LEMMA MergeIsNoOlder ==
  ASSUME NEW s \in Tables, OnePerOrigin(s.associations), NEW a \in Association,
         NEW direct \in BOOLEAN
  PROVE  NoOlder(s, MergeAssociation(s, a, direct))
<1> SUFFICES ASSUME NEW r \in s.associations,
                    NEW x \in MergeAssociation(s, a, direct).associations,
                    r.origin = x.origin
             PROVE  x.gen >= r.gen
  BY DEF NoOlder
<1>1. CASE x \in s.associations
  BY <1>1, FewerIsNoOlder DEF OnePerOrigin, Tables, Association
<1>2. CASE Merges(s, a, direct) /\ x.origin = a.origin /\ x.gen = a.gen
  BY <1>2 DEF Merges
<1> QED BY <1>1, <1>2, MergeRecords

\* ... and keeps a record of the origin that is at least as new.
LEMMA MergeKeepsRecord ==
  ASSUME NEW s \in Tables, NEW a \in Association, NEW direct \in BOOLEAN,
         NEW r \in s.associations, r.origin = a.origin => r.epoch = a.epoch
  PROVE  \E y \in MergeAssociation(s, a, direct).associations :
           y.origin = r.origin /\ y.epoch = r.epoch /\ y.gen >= r.gen
<1> DEFINE new == [a EXCEPT !.age = IF direct THEN 0 ELSE OlderByOne(a.age)]
<1>1. /\ new.origin = a.origin /\ new.epoch = a.epoch /\ new.gen = a.gen
  BY DEF Association
<1>2. r.gen \in 1 .. GenMax
  BY DEF Tables, Association
<1>3. r.gen >= r.gen
  BY <1>2, BoundsAssumption
<1>4. CASE ~Merges(s, a, direct)
  BY <1>3, <1>4 DEF MergeAssociation
<1>5. CASE Merges(s, a, direct)
  <2>1. MergeAssociation(s, a, direct).associations =
          {old \in s.associations : old.origin # a.origin} \cup {new}
    BY <1>5 DEF MergeAssociation, Tables
  <2> HIDE DEF new
  <2>2. CASE r.origin = a.origin
    <3>1. new.gen >= r.gen
      BY <1>1, <1>5, <2>2 DEF Merges
    <3> QED BY <1>1, <2>1, <2>2, <3>1
  <2>3. CASE r.origin # a.origin
    BY <1>3, <2>1, <2>3
  <2> QED BY <2>2, <2>3
<1> QED BY <1>4, <1>5

\* A relayed entry replaces no newer record, ...
LEMMA EntryIsNoOlder ==
  ASSUME NEW b \in Board, NEW s, Good(b, s), NEW a \in Association
  PROVE  NoOlder(s, OnEntry(b, s, a))
<1> SUFFICES ASSUME NEW r \in s.associations, NEW x \in OnEntry(b, s, a).associations,
                    r.origin = x.origin, r.epoch = x.epoch
             PROVE  x.gen >= r.gen
  BY DEF NoOlder
<1>1. CASE x \in s.associations
  BY <1>1, FewerIsNoOlder DEF Good, Unique, NoOlder
<1>2. CASE Merges(Accept(s, a.origin, a.epoch), a, FALSE) /\ Descends(x, a)
  <2>1. r \in Accept(s, a.origin, a.epoch).associations
    BY <1>2, AcceptRecords DEF Good, Descends
  <2> QED BY <1>2, <2>1 DEF Merges, Descends
<1> QED BY <1>1, <1>2, EntryRecords

\* ... and neither does a whole report.
LEMMA ReportIsNoOlder ==
  ASSUME NEW b \in Board, NEW s, Good(b, s), NEW m \in Reports
  PROVE  NoOlder(s, OnReport(b, s, m))
<1> DEFINE t == Accept(s, m.sender, m.incarnation)
           h == HeaderRecord(m)
           heard == MergeAssociation(t, h, TRUE)
           a == CHOOSE a \in m.relayed : TRUE
<1>1. m.sender \in Board /\ m.incarnation \in Epochs
  BY DEF Reports
<1>2. Good(b, t) /\ Same(t, m.sender, m.incarnation)
  BY <1>1, AcceptGood
<1>3. h \in Association /\ h.origin = m.sender /\ h.epoch = m.incarnation
  BY BoundsAssumption DEF HeaderRecord, Record, Association, Reports
<1>4. Good(b, heard) /\ heard.originEpochs = t.originEpochs
  <2>1. Same(t, h.origin, h.epoch)
    BY <1>2, <1>3
  <2> QED BY <1>2, <1>3, <2>1, MergeGood, MergeKeepsRegistry DEF Good
<1>5. /\ t.associations \subseteq s.associations
      /\ \A r \in s.associations : (r.origin = m.sender => r.epoch = m.incarnation) => r \in t.associations
  BY AcceptRecords DEF Good
<1>6. m.relayed # {} => a \in Association
  BY DEF Reports
<1> HIDE DEF t, h, a
<1> SUFFICES ASSUME NEW r \in s.associations, NEW x \in OnReport(b, s, m).associations,
                    r.origin = x.origin, r.epoch = x.epoch
             PROVE  x.gen >= r.gen
  BY DEF NoOlder
<1>7. OnReport(b, s, m) = s \/
        (m.sender # b /\ (OnReport(b, s, m) = heard \/
                          (m.relayed # {} /\ OnReport(b, s, m) = OnEntry(b, heard, a))))
  BY DEF OnReport, t, h, a
<1>8. CASE OnReport(b, s, m) = s
  BY <1>8, FewerIsNoOlder DEF Good, Unique, NoOlder
<1>9. CASE m.sender # b /\ OnReport(b, s, m) = heard
  <2>1. CASE r \in t.associations
    BY <1>2, <1>3, <1>9, <2>1, MergeIsNoOlder DEF Good, Unique, NoOlder
  <2>2. CASE r \notin t.associations
    <3>1. r.origin = m.sender /\ r.epoch # m.incarnation
      BY <1>5, <2>2
    <3>2. Same(heard, x.origin, x.epoch)
      BY <1>4, <1>9, <3>1 DEF Good, Consistent
    <3> QED BY <1>2, <1>4, <3>1, <3>2 DEF Same, Good, Unique, OnePerOrigin
  <2> QED BY <2>1, <2>2
<1>10. CASE m.sender # b /\ m.relayed # {} /\ OnReport(b, s, m) = OnEntry(b, heard, a)
  <2>1. CASE r \in t.associations
    <3>1. r.origin = h.origin => r.epoch = h.epoch
      <4>1. r.origin = m.sender => Same(t, r.origin, r.epoch)
        BY <1>2, <1>10, <2>1 DEF Good, Consistent
      <4> QED BY <1>2, <1>3, <4>1 DEF Same, Good, Unique, OnePerOrigin
    <3>2. PICK y \in heard.associations :
            y.origin = r.origin /\ y.epoch = r.epoch /\ y.gen >= r.gen
      BY <1>2, <1>3, <2>1, <3>1, MergeKeepsRecord DEF Good
    <3>3. x.gen >= y.gen
      BY <1>4, <1>6, <1>10, <3>2, EntryIsNoOlder DEF NoOlder
    <3>4. x.gen \in Nat /\ y.gen \in Nat /\ r.gen \in Nat
      <4>1. OnEntry(b, heard, a) \in Tables /\ heard \in Tables /\ s \in Tables
        BY <1>4, <1>6, <1>10, OnEntryGood DEF Good
      <4>2. x \in Association /\ y \in Association /\ r \in Association
        BY <1>10, <3>2, <4>1 DEF Tables
      <4> QED BY <4>2, BoundsAssumption DEF Association
    <3> QED BY <3>2, <3>3, <3>4
  <2>2. CASE r \notin t.associations
    <3>1. r.origin = m.sender /\ r.epoch # m.incarnation
      BY <1>5, <2>2
    <3>2. Good(b, OnEntry(b, heard, a))
      BY <1>4, <1>6, <1>10, OnEntryGood
    <3>3. [origin |-> x.origin, epoch |-> x.epoch] \in OnEntry(b, heard, a).originEpochs
      BY <1>10, <3>1, <3>2 DEF Good, Consistent, Same
    <3>4. [origin |-> m.sender, epoch |-> m.incarnation] \in heard.originEpochs
      BY <1>2, <1>4 DEF Same
    <3>5. [origin |-> x.origin, epoch |-> x.epoch] = [origin |-> m.sender, epoch |-> m.incarnation]
      BY <1>4, <1>6, <1>10, <3>1, <3>3, <3>4, EntryKeepsRegistry
    <3> QED BY <3>1, <3>5
  <2> QED BY <2>1, <2>2
<1> HIDE DEF heard
<1> QED BY <1>7, <1>8, <1>9, <1>10

NeverOlder == \A b \in Board : StaysUp(b) => NoOlder(ram[b], ram'[b])

\* A broadcast takes no hearer back, and its sender neither.
LEMMA PublishIsNoOlder ==
  ASSUME IInv, NEW b \in Board, Publish(b)
  PROVE  NeverOlder
<1> DEFINE own == Record(b, ram[b].incarnation, ram[b].wakeGeneration, 0)
           s == MergeAssociation(ram[b], own, TRUE)
           packet(relayed) == [sender |-> b, incarnation |-> s.incarnation,
                               wakeGeneration |-> s.wakeGeneration,
                               relayed |-> relayed]
<1>1. /\ ram[b].incarnation \in Epochs /\ ram[b].wakeGeneration \in 1 .. GenMax
      /\ Good(b, ram[b])
  BY DEF Publish, IInv, Identified, Running
<1>2. own \in Association /\ own.origin = b
  BY <1>1, BoundsAssumption DEF Record, Association
<1>3. Good(b, s) /\ SameIdentity(ram[b], s) /\ NoOlder(ram[b], s)
  BY <1>1, <1>2, MergeGood, MergeKeepsIdentity, MergeIsNoOlder DEF Good, Unique
<1>4. PICK relayed \in {{}} \cup {{a} : a \in {x \in s.associations : IsFresh(x)}},
           hearers \in SUBSET {h \in Board \ {b} : Running(h)} :
        ram' = [h \in Board |-> IF h = b THEN s
                               ELSE IF h \in hearers THEN OnReport(h, ram[h], packet(relayed))
                               ELSE ram[h]]
  BY DEF Publish
<1> HIDE DEF s
<1>5. relayed \subseteq Association
  BY <1>3 DEF Good, Tables
<1>6. packet(relayed) \in Reports
  BY <1>1, <1>3, <1>5 DEF SameIdentity, Reports
<1> HIDE DEF packet
<1>7. ASSUME NEW h \in Board PROVE NoOlder(ram[h], ram'[h])
  <2>1. Good(h, ram[h])
    BY DEF IInv
  <2>2. NoOlder(ram[h], ram[h])
    BY <2>1, FewerIsNoOlder DEF Good, Unique
  <2> QED BY <1>3, <1>4, <1>6, <2>1, <2>2, ReportIsNoOlder
<1> QED BY <1>7 DEF NeverOlder

\* No step takes a running board back.
LEMMA StepIsNoOlder == ASSUME IInv, NEW b \in Board, Step(b) PROVE NeverOlder
<1>1. \A h \in Board : ram[h] \in Tables /\ OnePerOrigin(ram[h].associations)
  BY DEF IInv, Good, Unique
<1>2. ASSUME \A h \in Board : ~StaysUp(h) \/ ram'[h].associations \subseteq ram[h].associations
      PROVE  NeverOlder
  BY <1>1, <1>2, FewerIsNoOlder DEF NeverOlder
<1>3. CASE SaveAssociations(b) \/ SaveOriginsStayAwake(b)
  BY <1>2, <1>3 DEF SaveAssociations, SaveOriginsStayAwake
<1>4. CASE TestReset(b)
  <2>1. \A h \in Board : ram'[h].associations \subseteq ram[h].associations
    BY <1>4 DEF TestReset, IInv, TypeOK, Tables
  <2> QED BY <1>2, <2>1
<1>5. CASE Boot(b)
  <2>1. ~StaysUp(b)
    BY <1>5 DEF Boot, StaysUp, Running
  <2>2. \A h \in Board : h # b => ram'[h] = ram[h]
    BY <1>5 DEF Boot, IInv, TypeOK
  <2> QED BY <1>2, <2>1, <2>2
<1>6. CASE SaveOriginsAndSleep(b) \/ Crash(b) \/ ColdReset(b) \/ PowerOff(b)
  <2>1. ~StaysUp(b)
    BY <1>6 DEF SaveOriginsAndSleep, Crash, ColdReset, PowerOff, StaysUp, Running, IInv, TypeOK
  <2>2. \A h \in Board : h # b => ram'[h] = ram[h]
    BY <1>6 DEF SaveOriginsAndSleep, Crash, ColdReset, PowerOff, IInv, TypeOK
  <2> QED BY <1>2, <2>1, <2>2
<1>7. ASSUME NEW k \in 1 .. MaxElapsed, AdvanceRound(b, k) PROVE NeverOlder
  <2>1. /\ \A h \in Board : h # b => ram'[h] = ram[h]
        /\ \A x \in ram'[b].associations :
             \E a \in ram[b].associations : x = [a EXCEPT !.age = Aged(a.age, k)]
    BY <1>7, AdvanceRoundAges
  <2>2. NoOlder(ram[b], ram'[b])
    <3> SUFFICES ASSUME NEW r \in ram[b].associations, NEW x \in ram'[b].associations,
                        r.origin = x.origin
                 PROVE  x.gen >= r.gen
      BY DEF NoOlder
    <3>1. PICK a \in ram[b].associations : x = [a EXCEPT !.age = Aged(a.age, k)]
      BY <2>1
    <3>2. a \in Association
      BY <1>1 DEF Tables
    <3>3. x.origin = a.origin /\ x.gen = a.gen /\ a.gen \in 1 .. GenMax
      BY <3>1, <3>2 DEF Association
    <3>4. a = r
      BY <1>1, <3>3 DEF OnePerOrigin
    <3> QED BY <3>3, <3>4, BoundsAssumption
  <2>3. \A h \in Board : NoOlder(ram[h], ram[h])
    BY <1>1, FewerIsNoOlder
  <2> QED BY <2>1, <2>2, <2>3 DEF NeverOlder
<1> QED BY <1>3, <1>4, <1>5, <1>6, <1>7, PublishIsNoOlder DEF Step

\* No record of a running board goes back to an older round of the same
\* incarnation (GenerationsAdvance), in whatever order old and new copies of it
\* arrive.
THEOREM RoundsNeverGoBack == Spec => GenerationsAdvance
<1>1. ASSUME IInv, [Next]_vars
      PROVE  [\A b \in Board : \A r \in ram[b].associations, s \in ram'[b].associations :
                (StaysUp(b) /\ r.origin = s.origin /\ r.epoch = s.epoch) => s.gen >= r.gen]_vars
  <2>1. NeverOlder \/ UNCHANGED vars
    BY <1>1, StepIsNoOlder DEF Next
  <2> QED BY <2>1 DEF NeverOlder, NoOlder
<1>2. IInv /\ [Next]_vars =>
        [\A b \in Board : \A r \in ram[b].associations, s \in ram'[b].associations :
           (StaysUp(b) /\ r.origin = s.origin /\ r.epoch = s.epoch) => s.gen >= r.gen]_vars
  BY <1>1
<1> QED BY <1>2, InitIInv, StepIInv, PTL DEF Spec, GenerationsAdvance

-----------------------------------------------------------------------------
(* A board's own record.                                                     *)

\* mergeAssociation() touches the records of one origin.
LEMMA MergeOthers ==
  ASSUME NEW s \in Tables, NEW a \in Association, NEW direct \in BOOLEAN,
         NEW x, x.origin # a.origin
  PROVE  x \in MergeAssociation(s, a, direct).associations <=> x \in s.associations
<1>1. CASE ~Merges(s, a, direct)
  BY <1>1 DEF MergeAssociation
<1>2. CASE Merges(s, a, direct)
  <2> DEFINE new == [a EXCEPT !.age = IF direct THEN 0 ELSE OlderByOne(a.age)]
  <2>1. new.origin = a.origin
    BY DEF Association
  <2>2. MergeAssociation(s, a, direct).associations =
          {old \in s.associations : old.origin # a.origin} \cup {new}
    BY <1>2 DEF MergeAssociation, Tables
  <2> HIDE DEF new
  <2> QED BY <2>1, <2>2
<1> QED BY <1>1, <1>2

\* What a board hears never touches its own record.
LEMMA ReportKeepsOwn ==
  ASSUME NEW b \in Board, NEW s, Good(b, s), NEW m \in Reports, NEW x, x.origin = b
  PROVE  x \in OnReport(b, s, m).associations <=> x \in s.associations
<1> DEFINE t == Accept(s, m.sender, m.incarnation)
           h == HeaderRecord(m)
           heard == MergeAssociation(t, h, TRUE)
           a == CHOOSE a \in m.relayed : TRUE
           u == Accept(heard, a.origin, a.epoch)
<1>1. m.sender \in Board /\ m.incarnation \in Epochs
  BY DEF Reports
<1>2. Good(b, t) /\ Same(t, m.sender, m.incarnation)
  BY <1>1, AcceptGood
<1>3. h \in Association /\ h.origin = m.sender /\ h.epoch = m.incarnation
  BY BoundsAssumption DEF HeaderRecord, Record, Association, Reports
<1>4. Good(b, heard)
  <2>1. Same(t, h.origin, h.epoch)
    BY <1>2, <1>3
  <2> QED BY <1>2, <1>3, <2>1, MergeGood
<1>5. m.relayed # {} => a \in Association
  BY DEF Reports
<1>6. m.sender # b => (x \in t.associations <=> x \in s.associations)
  BY AcceptRecords DEF Good
<1>7. m.sender # b => (x \in heard.associations <=> x \in t.associations)
  BY <1>2, <1>3, MergeOthers DEF Good
<1> HIDE DEF t, h, a
<1>8. ASSUME a \in Association, Accepts(b, heard, a.origin, a.epoch, FALSE)
      PROVE  x \in OnEntry(b, heard, a).associations <=> x \in heard.associations
  <2> HIDE DEF heard
  <2>1. a.origin # b /\ a.origin \in Board /\ a.epoch \in Epochs
    BY <1>8 DEF Accepts, Association
  <2>2. x \in u.associations <=> x \in heard.associations
    BY <1>4, <2>1, AcceptRecords DEF Good
  <2>3. u \in Tables
    BY <1>4, <2>1, AcceptGood DEF Good
  <2> HIDE DEF u
  <2>4. x \in MergeAssociation(u, a, FALSE).associations <=> x \in u.associations
    BY <1>8, <2>1, <2>3, MergeOthers
  <2> QED BY <1>8, <2>2, <2>4 DEF OnEntry, u
<1>9. ASSUME ~Accepts(b, heard, a.origin, a.epoch, FALSE)
      PROVE  OnEntry(b, heard, a) = heard
  BY <1>9 DEF OnEntry
<1>10. OnReport(b, s, m) = s \/
         (m.sender # b /\ (OnReport(b, s, m) = heard \/
                           (m.relayed # {} /\ OnReport(b, s, m) = OnEntry(b, heard, a))))
  BY DEF OnReport, t, h, a
<1> HIDE DEF heard
<1> QED BY <1>5, <1>6, <1>7, <1>8, <1>9, <1>10

\* A table with no entry of some board has room for it, when there are no more
\* boards than entries.
LEMMA RoomLeft ==
  ASSUME IsFiniteSet(Board), Cardinality(Board) <= Slots,
         NEW b \in Board, NEW R, OnePerOrigin(R), \A r \in R : r.origin \in Board \ {b}
  PROVE  Cardinality(R) < Slots
<1> DEFINE T == Board \ {b}
           f == [r \in R |-> r.origin]
<1>1. IsFiniteSet(T) /\ Cardinality(T) = Cardinality(Board) - 1
  BY FS_RemoveElement
<1>2. f \in [R -> T]
  OBVIOUS
<1>3. f \in Injection(R, T)
  BY <1>2 DEF Injection, IsInjective, OnePerOrigin
<1> HIDE DEF T, f
<1>4. IsFiniteSet(R) /\ Cardinality(R) <= Cardinality(T)
  BY <1>1, <1>3, FS_Injection
<1>5. Cardinality(R) \in Nat /\ Cardinality(Board) \in Nat
  BY <1>4, FS_CardinalityType
<1> QED BY <1>1, <1>4, <1>5, BoundsAssumption

\* Rounds add up, also when they saturate.
LEMMA AgedTwice ==
  ASSUME NEW n \in Nat, NEW k \in Nat
  PROVE  Aged(Aged(0, n), k) = Aged(0, n + k)
BY BoundsAssumption DEF Aged

\* Of its own records a board keeps those of the incarnation it registers.
LEMMA AcceptsItself ==
  ASSUME IsFiniteSet(Board), Cardinality(Board) <= Slots,
         NEW b \in Board, NEW s, Good(b, s), NEW e \in Epochs, s.incarnation = e,
         \A x \in s.associations : (x.origin = b /\ Same(s, b, e)) => x.epoch = e
  PROVE  /\ AcceptOrigin(b, s, b, e, TRUE).associations \subseteq s.associations
         /\ \A x \in AcceptOrigin(b, s, b, e, TRUE).associations :
              x.origin = b => x.epoch = e
<1>1. Accepts(b, s, b, e, TRUE)
  <2>1. ~Remembers(s, b) => \A r \in s.originEpochs : r.origin \in Board \ {b}
    BY DEF Remembers, Good, Tables, Origin
  <2>2. ~Remembers(s, b) => Cardinality(s.originEpochs) < Slots
    BY <2>1, RoomLeft DEF Good, Unique
  <2> QED BY <2>2 DEF Accepts
<1>2. AcceptOrigin(b, s, b, e, TRUE) = Accept(s, b, e)
  BY <1>1 DEF AcceptOrigin
<1>3. Accept(s, b, e).associations \subseteq s.associations
  BY AcceptRecords DEF Good
<1>4. CASE Same(s, b, e)
  BY <1>2, <1>3, <1>4
<1>5. CASE ~Same(s, b, e)
  <2>1. Accept(s, b, e).associations = {a \in s.associations : a.origin = b => a.epoch = e}
    BY <1>5 DEF Accept, Good, Tables
  <2> QED BY <1>2, <1>3, <2>1
<1> QED BY <1>4, <1>5

\* The own record of a running board is exact; so is the saved one of a board
\* that sleeps, and nothing but the own record is saved.
OwnExact(b, s) ==
  \A x \in s.associations : x.origin = b =>
    /\ x.epoch = s.incarnation /\ x.gen <= s.wakeGeneration
    /\ x.age = Aged(0, s.wakeGeneration - x.gen)

OwnSaved(b, f) ==
  \A x \in f.associations : (x.origin = b /\ x.epoch = f.incarnation) =>
    /\ x.gen <= f.wakeGeneration
    /\ x.age = Aged(0, f.wakeGeneration - x.gen)

OwnInv(b) ==
  /\ ~Running(b) => ram[b].associations = {}
  /\ flash[b].incarnation # NoEpoch =>
       /\ Running(b) => OwnExact(b, ram[b])
       /\ mode[b] = "asleep" => OwnSaved(b, flash[b])
       /\ mode[b] = "saving" =>
            \A x \in flash[b].associations : x.origin = b => x \in ram[b].associations

\* A board whose own records, identity and mode stay the same.
LEMMA OwnFrame ==
  ASSUME IInv, NEW b \in Board, OwnInv(b), mode'[b] = mode[b], flash'[b] = flash[b],
         SameIdentity(ram[b], ram'[b]),
         \A x : x.origin = b =>
           (x \in ram'[b].associations <=> x \in ram[b].associations),
         ~Running(b) => ram'[b] = ram[b]
  PROVE  OwnInv(b)'
<1>1. Running(b)' <=> Running(b)
  BY DEF Running
<1>2. OwnExact(b, ram[b]) => OwnExact(b, ram'[b])
  BY DEF OwnExact, SameIdentity
<1> QED BY <1>1, <1>2 DEF OwnInv, OwnExact, OwnSaved

\* A board that a step does not touch.
LEMMA OwnUntouched ==
  ASSUME IInv, NEW b \in Board, OwnInv(b), mode'[b] = mode[b], flash'[b] = flash[b],
         ram'[b] = ram[b]
  PROVE  OwnInv(b)'
BY OwnFrame DEF SameIdentity

\* A board that starts has reloaded its own record as old as it was saved.
LEMMA BootOwn ==
  ASSUME IInv, Numbered, IsFiniteSet(Board), Cardinality(Board) <= Slots,
         NEW b \in Board, OwnInv(b), Boot(b)
  PROVE  OwnInv(b)'
<1> DEFINE gen == FirstRound(flash[b])
<1>1. PICK e \in IF flash[b].incarnation = NoEpoch THEN RandomIncarnation(b)
                 ELSE {flash[b].incarnation} :
        /\ ram' = [ram EXCEPT ![b] =
                     AcceptOrigin(b, [Reloaded(flash[b]) EXCEPT !.incarnation = e,
                                                                !.wakeGeneration = gen],
                                  b, e, TRUE)]
        /\ flash' = [flash EXCEPT ![b].incarnation = e, ![b].wakeGeneration = gen]
  BY DEF Boot
<1> DEFINE started == [Reloaded(flash[b]) EXCEPT !.incarnation = e, !.wakeGeneration = gen]
<1>2. flash[b] \in Tables /\ Unique(flash[b]) /\ e \in Epochs
  BY <1>1, RandomIncarnationType DEF IInv, TypeOK, Tables
<1>3. gen \in 0 .. GenMax
  BY <1>2, BoundsAssumption DEF FirstRound, Tables
<1>4. Good(b, started)
  BY <1>2, <1>3, ReloadedGood, RenamedGood
<1>5. /\ started.incarnation = e /\ started.wakeGeneration = gen
      /\ started.originEpochs = flash[b].originEpochs
      /\ \A x \in started.associations :
           x \in flash[b].associations /\ Same(flash[b], x.origin, x.epoch)
  <2>1. Reloaded(flash[b]) \in Tables
    BY <1>2, ReloadedGood DEF Good
  <2>2. /\ Reloaded(flash[b]).originEpochs = flash[b].originEpochs
        /\ \A x \in Reloaded(flash[b]).associations :
             x \in flash[b].associations /\ Same(flash[b], x.origin, x.epoch)
    BY <1>2 DEF Reloaded, Tables
  <2> HIDE DEF gen
  <2> QED BY <2>1, <2>2 DEF Tables
<1>6. ram' = [ram EXCEPT ![b] = AcceptOrigin(b, started, b, e, TRUE)]
  BY <1>1
<1> HIDE DEF started
<1>7. ram'[b] = AcceptOrigin(b, started, b, e, TRUE)
  BY <1>6 DEF IInv, TypeOK
<1>8. SameIdentity(started, ram'[b])
  BY <1>4, <1>7, AcceptOriginKeepsIdentity DEF Good
<1>9. \A x \in started.associations : (x.origin = b /\ Same(started, b, e)) => x.epoch = e
  BY <1>2, <1>5 DEF Same, Unique, OnePerOrigin
<1>10. /\ ram'[b].associations \subseteq flash[b].associations
       /\ \A x \in ram'[b].associations : x.origin = b => x.epoch = e
  <2>1. started.incarnation = e
    BY <1>5
  <2>2. /\ AcceptOrigin(b, started, b, e, TRUE).associations \subseteq started.associations
        /\ \A x \in AcceptOrigin(b, started, b, e, TRUE).associations :
             x.origin = b => x.epoch = e
    BY <1>2, <1>4, <1>9, <2>1, AcceptsItself
  <2> QED BY <1>5, <1>7, <2>2
<1>11. OwnExact(b, ram'[b])
  <2> SUFFICES ASSUME NEW x \in ram'[b].associations, x.origin = b
               PROVE  /\ x.epoch = e /\ x.gen <= gen /\ x.age = Aged(0, gen - x.gen)
    BY <1>5, <1>8 DEF OwnExact, SameIdentity
  <2>1. x \in flash[b].associations /\ x.epoch = e /\ x \in Association
    BY <1>2, <1>10 DEF Tables
  <2>2. x \in KnownRecords
    BY <2>1 DEF KnownRecords
  <2>3. e \notin RandomIncarnation(b)
    BY <2>1, <2>2, RandomIsUnused
  <2>4. flash[b].incarnation = e /\ flash[b].incarnation # NoEpoch
    BY <1>1, <2>3
  <2>5. x.gen <= flash[b].wakeGeneration /\ x.age = Aged(0, flash[b].wakeGeneration - x.gen)
    BY <2>1, <2>4 DEF OwnInv, OwnSaved, Boot
  <2>6. gen = flash[b].wakeGeneration
    <3>1. x.gen \in 1 .. GenMax /\ flash[b].wakeGeneration \in 0 .. GenMax
      BY <1>2, <2>1 DEF Tables, Association
    <3> QED BY <2>5, <3>1, BoundsAssumption DEF FirstRound
  <2> QED BY <2>1, <2>5, <2>6
<1>12. mode'[b] = "awake"
  BY DEF Boot, IInv, TypeOK
<1> QED BY <1>11, <1>12 DEF OwnInv, OwnExact, Running

\* A broadcast renews its sender's own record and no hearer's.
LEMMA PublishOwn ==
  ASSUME IInv, Numbered, NEW b \in Board, Publish(b), \A h \in Board : OwnInv(h)
  PROVE  \A h \in Board : OwnInv(h)'
<1> DEFINE own == Record(b, ram[b].incarnation, ram[b].wakeGeneration, 0)
           s == MergeAssociation(ram[b], own, TRUE)
           packet(relayed) == [sender |-> b, incarnation |-> s.incarnation,
                               wakeGeneration |-> s.wakeGeneration,
                               relayed |-> relayed]
<1>1. /\ ram[b].incarnation \in Epochs /\ ram[b].wakeGeneration \in 1 .. GenMax
      /\ Good(b, ram[b])
  BY DEF Publish, IInv, Identified, Running
<1>2. /\ own \in Association /\ own.origin = b /\ own.epoch = ram[b].incarnation
      /\ own.gen = ram[b].wakeGeneration
  BY <1>1, BoundsAssumption DEF Record, Association
<1>3. Good(b, s) /\ SameIdentity(ram[b], s)
  BY <1>1, <1>2, MergeGood, MergeKeepsIdentity DEF Good
<1>4. OwnExact(b, s)
  <2>1. OwnExact(b, ram[b])
    BY DEF OwnInv, Publish, Running
  <2>2. ASSUME NEW x \in s.associations, x \notin ram[b].associations
        PROVE  x.epoch = own.epoch /\ x.gen = own.gen /\ x.age = 0
    BY <1>1, <1>2, <2>2, MergeRecords DEF Good
  <2>3. Aged(0, ram[b].wakeGeneration - ram[b].wakeGeneration) = 0
    BY <1>1, BoundsAssumption DEF Aged
  <2>4. ram[b].wakeGeneration <= ram[b].wakeGeneration
    BY <1>1, BoundsAssumption
  <2> HIDE DEF s
  <2> SUFFICES ASSUME NEW x \in s.associations, x.origin = b
               PROVE  /\ x.epoch = s.incarnation /\ x.gen <= s.wakeGeneration
                      /\ x.age = Aged(0, s.wakeGeneration - x.gen)
    BY DEF OwnExact
  <2>5. s.incarnation = ram[b].incarnation /\ s.wakeGeneration = ram[b].wakeGeneration
    BY <1>3 DEF SameIdentity
  <2>6. CASE x \in ram[b].associations
    BY <2>1, <2>5, <2>6 DEF OwnExact
  <2>7. CASE x \notin ram[b].associations
    BY <1>2, <2>2, <2>3, <2>4, <2>5, <2>7
  <2> QED BY <2>6, <2>7
<1>5. PICK relayed \in {{}} \cup {{a} : a \in {x \in s.associations : IsFresh(x)}},
           hearers \in SUBSET {h \in Board \ {b} : Running(h)} :
        ram' = [h \in Board |-> IF h = b THEN s
                               ELSE IF h \in hearers THEN OnReport(h, ram[h], packet(relayed))
                               ELSE ram[h]]
  BY DEF Publish
<1> HIDE DEF s
<1>6. relayed \subseteq Association
  BY <1>3 DEF Good, Tables
<1>7. packet(relayed) \in Reports
  BY <1>1, <1>3, <1>6 DEF SameIdentity, Reports
<1> HIDE DEF packet
<1>8. mode' = mode /\ flash' = flash
  BY DEF Publish
<1>9. ASSUME NEW h \in Board PROVE OwnInv(h)'
  <2>1. CASE h = b
    <3>1. ram'[b] = s /\ mode'[b] = "awake"
      BY <1>5, <1>8 DEF Publish
    <3> QED BY <1>4, <2>1, <3>1 DEF OwnInv, OwnExact, Running
  <2>2. CASE h # b /\ h \in hearers
    <3>1. ram'[h] = OnReport(h, ram[h], packet(relayed)) /\ Running(h)
      BY <1>5, <2>2
    <3>2. Good(h, ram[h])
      BY DEF IInv
    <3> QED BY <1>7, <1>8, <3>1, <3>2, ReportKeepsOwn, ReportKeepsIdentity, OwnFrame
  <2>3. CASE h # b /\ h \notin hearers
    BY <1>5, <1>8, <2>3, OwnUntouched
  <2> QED BY <2>1, <2>2, <2>3
<1> QED BY <1>9

\* A round ages the own record by as much as it advances the counter.
LEMMA AdvanceRoundOwn ==
  ASSUME IInv, Numbered, IsFiniteSet(Board), Cardinality(Board) <= Slots,
         NEW b \in Board, OwnInv(b), NEW k \in 1 .. MaxElapsed, AdvanceRound(b, k)
  PROVE  OwnInv(b)'
<1> DEFINE older(a) == [a EXCEPT !.age = Aged(a.age, k)]
           aged == [ram[b] EXCEPT !.associations = {older(a) : a \in @}]
<1>1. k \in Nat /\ mode[b] = "awake" /\ mode'[b] = "awake" /\ ram[b] \in Tables
  <2>1. k \in Nat
    BY BoundsAssumption
  <2>2. mode[b] = "awake" /\ mode'[b] = "awake" /\ ram[b] \in Tables
    BY DEF AdvanceRound, IInv, TypeOK
  <2> QED BY <2>1, <2>2
<1>2. Good(b, aged) /\ SameIdentity(ram[b], aged)
  BY <1>1, AgedGood DEF IInv
<1>3. aged.associations = {older(a) : a \in ram[b].associations}
  BY <1>1 DEF Tables
<1>4. OwnExact(b, ram[b])
  BY <1>1 DEF OwnInv, AdvanceRound, Running
<1>5. ASSUME NEW a \in ram[b].associations
      PROVE  /\ older(a).origin = a.origin /\ older(a).epoch = a.epoch /\ older(a).gen = a.gen
             /\ older(a).age = Aged(a.age, k) /\ a.gen \in 1 .. GenMax
  BY <1>1 DEF Tables, Association
<1> HIDE DEF older
<1>6. OwnExact(b, ram'[b])
  <2>1. CASE k > GenMax - aged.wakeGeneration
    <3>1. PICK e \in RandomIncarnation(b) :
            ram' = [ram EXCEPT ![b] = AcceptOrigin(b, [aged EXCEPT !.incarnation = e,
                                                         !.wakeGeneration = 1], b, e, TRUE)]
      BY <2>1 DEF AdvanceRound, older
    <3> DEFINE wrapped == [aged EXCEPT !.incarnation = e, !.wakeGeneration = 1]
    <3>2. e \in Epochs /\ 1 \in 0 .. GenMax
      BY RandomIncarnationType, BoundsAssumption
    <3> HIDE DEF aged
    <3>3. /\ Good(b, wrapped) /\ wrapped.incarnation = e
          /\ wrapped.associations = aged.associations
      BY <1>2, <3>2, RenamedGood DEF Good, Tables
    <3>4. ram'[b] = AcceptOrigin(b, wrapped, b, e, TRUE)
      BY <3>1 DEF IInv, TypeOK
    <3> HIDE DEF wrapped
    <3>5. ASSUME NEW x \in aged.associations, x.origin = b PROVE x.epoch # e
      <4>1. PICK a \in ram[b].associations : x = older(a)
        BY <1>3, <3>5
      <4>2. a \in KnownRecords /\ a.origin = b /\ x.epoch = a.epoch
        BY <1>5, <3>5, <4>1 DEF KnownRecords
      <4> QED BY <4>2, RandomIsUnused
    <3>6. ASSUME NEW x \in wrapped.associations, x.origin = b, Same(wrapped, b, e)
          PROVE  x.epoch = e
      <4>1. ~Same(wrapped, b, e)
        <5>1. wrapped.originEpochs = ram[b].originEpochs
          BY <1>1, <1>2 DEF wrapped, aged, Good, Tables
        <5>2. ASSUME Same(ram[b], b, e) PROVE e \in EpochsOf(b)
          <6> DEFINE E(h) == EpochsOfTables(b, ram[h]) \cup EpochsOfTables(b, flash[h])
          <6>1. e \in E(b)
            BY <5>2 DEF Same, EpochsOfTables
          <6> HIDE DEF E
          <6>2. e \in UNION {E(h) : h \in Board}
            BY <6>1
          <6> QED BY <6>2 DEF EpochsOf, E
        <5>3. e \notin EpochsOf(b)
          BY DEF RandomIncarnation
        <5> QED BY <5>1, <5>2, <5>3 DEF Same
      <4> QED BY <3>6, <4>1
    <3>7. /\ AcceptOrigin(b, wrapped, b, e, TRUE).associations \subseteq wrapped.associations
          /\ \A x \in AcceptOrigin(b, wrapped, b, e, TRUE).associations :
               x.origin = b => x.epoch = e
      BY <3>2, <3>3, <3>6, AcceptsItself
    <3>8. \A x \in ram'[b].associations : x.origin # b
      BY <3>3, <3>4, <3>5, <3>7
    <3> QED BY <3>8 DEF OwnExact
  <2>2. CASE ~(k > GenMax - aged.wakeGeneration)
    <3> DEFINE gen == aged.wakeGeneration + k
    <3>1. ram'[b] = [aged EXCEPT !.wakeGeneration = gen]
      BY <2>2 DEF AdvanceRound, IInv, TypeOK, older
    <3>2. gen = ram[b].wakeGeneration + k /\ ram[b].wakeGeneration \in 0 .. GenMax
      BY <1>1, <1>2 DEF SameIdentity, Tables
    <3> HIDE DEF aged, gen
    <3>3. /\ ram'[b].incarnation = ram[b].incarnation /\ ram'[b].wakeGeneration = gen
          /\ ram'[b].associations = aged.associations
      BY <1>2, <3>1 DEF Good, Tables, SameIdentity
    <3> SUFFICES ASSUME NEW x \in aged.associations, x.origin = b
                 PROVE  /\ x.epoch = ram[b].incarnation /\ x.gen <= gen
                        /\ x.age = Aged(0, gen - x.gen)
      BY <3>3 DEF OwnExact
    <3>4. PICK a \in ram[b].associations : x = older(a)
      BY <1>3
    <3>5. /\ a.epoch = ram[b].incarnation /\ a.gen <= ram[b].wakeGeneration
          /\ a.age = Aged(0, ram[b].wakeGeneration - a.gen)
      BY <1>4, <1>5, <3>4 DEF OwnExact
    <3>6. a.gen \in Nat /\ ram[b].wakeGeneration \in Nat
      BY <1>5, <3>2, BoundsAssumption
    <3> DEFINE n == ram[b].wakeGeneration - a.gen
    <3>7. n \in Nat /\ gen - a.gen = n + k /\ a.gen <= gen
      BY <1>1, <3>2, <3>5, <3>6
    <3>8. x.age = Aged(Aged(0, n), k)
      BY <1>5, <3>4, <3>5
    <3> HIDE DEF n
    <3>9. x.age = Aged(0, n + k)
      BY <1>1, <3>7, <3>8, AgedTwice
    <3> QED BY <1>5, <3>4, <3>5, <3>7, <3>9
  <2> QED BY <2>1, <2>2
<1> QED BY <1>1, <1>6 DEF OwnInv, OwnExact, Running

\* Without panics, every step keeps own records exact.
LEMMA StepOwn ==
  ASSUME IInv, Numbered, Crashable = {}, IsFiniteSet(Board), Cardinality(Board) <= Slots,
         \A h \in Board : OwnInv(h), [Next]_vars
  PROVE  \A h \in Board : OwnInv(h)'
<1>1. ASSUME NEW b \in Board, OwnInv(b)',
             \A h \in Board : h # b => /\ mode'[h] = mode[h] /\ ram'[h] = ram[h]
                                       /\ flash'[h] = flash[h]
      PROVE  \A h \in Board : OwnInv(h)'
  BY <1>1, OwnUntouched
<1>2. ASSUME NEW b \in Board, Boot(b) PROVE \A h \in Board : OwnInv(h)'
  <2>1. \A h \in Board : h # b => mode'[h] = mode[h] /\ ram'[h] = ram[h] /\ flash'[h] = flash[h]
    BY <1>2 DEF Boot, IInv, TypeOK
  <2> QED BY <1>1, <1>2, <2>1, BootOwn
<1>3. ASSUME NEW b \in Board, NEW k \in 1 .. MaxElapsed, AdvanceRound(b, k)
      PROVE  \A h \in Board : OwnInv(h)'
  <2>1. \A h \in Board : h # b => mode'[h] = mode[h] /\ ram'[h] = ram[h] /\ flash'[h] = flash[h]
    BY <1>3 DEF AdvanceRound, IInv, TypeOK
  <2> QED BY <1>1, <1>3, <2>1, AdvanceRoundOwn
<1>4. ASSUME NEW b \in Board, SaveAssociations(b) PROVE \A h \in Board : OwnInv(h)'
  <2>1. /\ \A h \in Board : h # b => mode'[h] = mode[h] /\ flash'[h] = flash[h]
        /\ ram' = ram /\ mode[b] = "awake" /\ mode'[b] = "saving"
    BY <1>4 DEF SaveAssociations, IInv, TypeOK
  <2>2. flash'[b].associations = ram[b].associations /\ flash'[b].incarnation = flash[b].incarnation
    BY <1>4 DEF SaveAssociations, IInv, TypeOK, Tables
  <2>3. OwnInv(b)'
    BY <2>1, <2>2 DEF OwnInv, OwnExact, Running
  <2> QED BY <1>1, <2>1, <2>3
<1>5. ASSUME NEW b \in Board, SaveOriginsStayAwake(b) PROVE \A h \in Board : OwnInv(h)'
  <2>1. /\ \A h \in Board : h # b => mode'[h] = mode[h] /\ flash'[h] = flash[h]
        /\ ram' = ram /\ mode[b] = "saving" /\ mode'[b] = "awake"
    BY <1>5 DEF SaveOriginsStayAwake, IInv, TypeOK
  <2>2. flash'[b].incarnation = flash[b].incarnation
    BY <1>5 DEF SaveOriginsStayAwake, IInv, TypeOK, Tables
  <2>3. OwnInv(b)'
    BY <2>1, <2>2 DEF OwnInv, OwnExact, Running
  <2> QED BY <1>1, <2>1, <2>3
<1>6. ASSUME NEW b \in Board, SaveOriginsAndSleep(b) PROVE \A h \in Board : OwnInv(h)'
  <2>1. PICK gen \in {ram[b].wakeGeneration} \cup
                     IF flash[b].incarnation = NoEpoch THEN {0} ELSE {} :
          flash' = [flash EXCEPT ![b].originEpochs = ram[b].originEpochs,
                                 ![b].wakeGeneration = gen]
    BY <1>6 DEF SaveOriginsAndSleep
  <2>2. /\ flash'[b].incarnation = flash[b].incarnation /\ flash'[b].wakeGeneration = gen
        /\ flash'[b].associations = flash[b].associations
    BY <2>1 DEF IInv, TypeOK, Tables
  <2>3. /\ \A h \in Board : h # b => /\ mode'[h] = mode[h] /\ ram'[h] = ram[h]
                                     /\ flash'[h] = flash[h]
        /\ mode[b] = "saving" /\ mode'[b] = "asleep" /\ ram'[b].associations = {}
    BY <1>6, <2>1 DEF SaveOriginsAndSleep, IInv, TypeOK, Blank
  <2>4. OwnInv(b)'
    <3>1. ASSUME flash[b].incarnation # NoEpoch PROVE OwnSaved(b, flash'[b])
      <4>1. /\ gen = ram[b].wakeGeneration /\ OwnExact(b, ram[b])
            /\ \A x \in flash[b].associations : x.origin = b => x \in ram[b].associations
        BY <2>1, <2>3, <3>1 DEF OwnInv, Running
      <4> QED BY <2>2, <4>1 DEF OwnSaved, OwnExact
    <3> QED BY <2>2, <2>3, <3>1 DEF OwnInv, OwnSaved, Running
  <2> QED BY <1>1, <2>3, <2>4
<1>7. ASSUME NEW b \in Board, TestReset(b) \/ ColdReset(b) PROVE \A h \in Board : OwnInv(h)'
  <2>1. \A h \in Board : h # b => mode'[h] = mode[h] /\ ram'[h] = ram[h] /\ flash'[h] = flash[h]
    BY <1>7 DEF TestReset, ColdReset, IInv, TypeOK
  <2>2. flash'[b].incarnation = NoEpoch
    BY <1>7 DEF TestReset, ColdReset, IInv, TypeOK, Blank
  <2>3. ram'[b].associations = {}
    BY <1>7 DEF TestReset, ColdReset, IInv, TypeOK, Tables, Blank
  <2> QED BY <1>1, <2>1, <2>2, <2>3 DEF OwnInv
<1>8. ASSUME NEW b \in Board, PowerOff(b) PROVE \A h \in Board : OwnInv(h)'
  <2>1. \A h \in Board : h # b => mode'[h] = mode[h] /\ ram'[h] = ram[h] /\ flash'[h] = flash[h]
    BY <1>8 DEF PowerOff, IInv, TypeOK
  <2>2. mode'[b] = "off" /\ ram'[b].associations = {}
    BY <1>8 DEF PowerOff, IInv, TypeOK, Blank
  <2>3. OwnInv(b)'
    BY <2>2 DEF OwnInv, Running
  <2> QED BY <1>1, <2>1, <2>3
<1>9. CASE UNCHANGED vars
  BY <1>9, OwnUntouched DEF vars
<1>10. \A b \in Board : ~Crash(b)
  BY DEF Crash
<1> QED BY <1>2, <1>3, <1>4, <1>5, <1>6, <1>7, <1>8, <1>9, <1>10, PublishOwn DEF Next, Step

\* A board's own record is exactly as old as the rounds since it was published
\* (OwnAgeExact), on a farm of at most as many boards as a table has entries and
\* as long as nothing panics: a panic takes the ages of the last checkpoint back.
THEOREM OwnRecordsAreExact ==
  ASSUME Crashable = {}, IsFiniteSet(Board), Cardinality(Board) <= Slots
  PROVE  Spec => []OwnAgeExact
<1> DEFINE Own == \A h \in Board : OwnInv(h)
<1>1. Init => IInv /\ Numbered /\ Own
  <2>1. Init => Numbered /\ Own
    BY DEF Init, Numbered, OwnInv, Running, Blank
  <2> QED BY <2>1, InitIInv
<1>2. IInv /\ Numbered /\ Own /\ [Next]_vars => (IInv /\ Numbered /\ Own)'
  BY StepIInv, IdentityAdvances, StepOwn
<1>3. IInv /\ Numbered /\ Own => OwnAgeExact
  <2> SUFFICES ASSUME IInv, Own, NEW b \in Board, NEW a \in ram[b].associations,
                      a.origin = b, flash[b].incarnation # NoEpoch
               PROVE  /\ a.epoch = ram[b].incarnation
                      /\ a.age = Aged(0, ram[b].wakeGeneration - a.gen)
    BY DEF OwnAgeExact
  <2>1. OwnExact(b, ram[b])
    BY DEF OwnInv
  <2> QED BY <2>1 DEF OwnExact
<1> HIDE DEF Own
<1> QED BY <1>1, <1>2, <1>3, PTL DEF Spec

-----------------------------------------------------------------------------

(* What a board holds about o, and the least of its ages.                    *)

Held(s, o) == {x \in s.associations : x.origin = o}

InUse(m, r, f, o) ==
  (IF m \in {"awake", "saving"} THEN Held(r, o) ELSE {}) \cup
  (IF m \in {"saving", "asleep"} THEN Held(f, o) ELSE {})

Youngest(n, R) ==
  IF R = {} THEN n = -1
  ELSE (\E x \in R : x.age = n) /\ \A x \in R : n <= x.age

NewsIn(m, r, f, o) ==
  LET U == {x.age : x \in InUse(m, r, f, o)}
  IN  IF U = {} THEN -1 ELSE CHOOSE n \in U : \A k \in U : n <= k

\* NewsAge looks at a board's mode and tables only.
LEMMA NewsAgeIs ==
  ASSUME NEW b \in Board, NEW o
  PROVE  /\ NewsAge(b, o) = NewsIn(mode[b], ram[b], flash[b], o)
         /\ NewsAge(b, o)' = NewsIn(mode'[b], ram'[b], flash'[b], o)
<1>1. Usable(b, o) = {x.age : x \in InUse(mode[b], ram[b], flash[b], o)}
  BY DEF Usable, InUse, Held, Running
<1>2. Usable(b, o)' = {x.age : x \in InUse(mode'[b], ram'[b], flash'[b], o)}
  BY DEF Usable, InUse, Held, Running
<1> QED BY <1>1, <1>2 DEF NewsAge, NewsIn

\* It is the age of the youngest record in use.
LEMMA NewsIsYoungest ==
  ASSUME NEW m, NEW r \in Tables, NEW f \in Tables, NEW o,
         OnePerOrigin(r.associations), OnePerOrigin(f.associations)
  PROVE  /\ Youngest(NewsIn(m, r, f, o), InUse(m, r, f, o))
         /\ NewsIn(m, r, f, o) \in -1 .. AgeMax
<1> DEFINE R == InUse(m, r, f, o)
           U == {x.age : x \in R}
<1>1. /\ \A x, y \in Held(r, o) : x = y
      /\ \A x, y \in Held(f, o) : x = y
  BY DEF Held, OnePerOrigin
<1>2. R \subseteq Association
  BY DEF InUse, Held, Tables
<1>3. U \subseteq 0 .. AgeMax
  BY <1>2 DEF Association
<1>4. CASE R = {}
  BY <1>4, BoundsAssumption DEF NewsIn, Youngest
<1>5. CASE R # {}
  <2>1. PICK x \in R, y \in R : \A z \in R : z = x \/ z = y
    <3>1. \A u, v, w \in R : u = v \/ u = w \/ v = w
      BY <1>1 DEF InUse
    <3> HIDE DEF R
    <3>2. CASE \E u, v \in R : u # v
      BY <3>1, <3>2
    <3>3. CASE \A u, v \in R : u = v
      BY <1>5, <3>3
    <3> QED BY <3>2, <3>3
  <2> HIDE DEF R
  <2>2. x.age \in Nat /\ y.age \in Nat
    BY <1>3, BoundsAssumption
  <2>3. \A k \in U : k = x.age \/ k = y.age
    BY <2>1
  <2>4. \E n \in U : \A k \in U : n <= k
    <3>1. CASE x.age <= y.age
      <4>1. \A k \in U : x.age <= k
        BY <2>2, <2>3, <3>1
      <4> QED BY <4>1
    <3>2. CASE ~(x.age <= y.age)
      <4>1. \A k \in U : y.age <= k
        BY <2>2, <2>3, <3>2
      <4> QED BY <4>1
    <3> QED BY <3>1, <3>2
  <2> DEFINE n == CHOOSE n \in U : \A k \in U : n <= k
  <2>5. n \in U /\ \A k \in U : n <= k
    BY <2>4
  <2>6. NewsIn(m, r, f, o) = n
    BY <1>5 DEF NewsIn, R
  <2> HIDE DEF n
  <2>7. Youngest(n, R)
    BY <1>5, <2>5 DEF Youngest
  <2>8. n \in -1 .. AgeMax
    BY <1>3, <2>5, BoundsAssumption
  <2> QED BY <2>6, <2>7, <2>8 DEF R
<1> QED BY <1>4, <1>5

\* If every record that is in use afterwards is at least as old as one before,
\* the news is gone, or at least as old.
LEMMA NewsFades ==
  ASSUME NEW R \in SUBSET Association, NEW S \in SUBSET Association,
         NEW n \in -1 .. AgeMax, NEW k \in -1 .. AgeMax,
         Youngest(n, R), Youngest(k, S),
         \A x \in S : \E y \in R : y.age <= x.age
  PROVE  k = -1 \/ (n # -1 /\ n <= k)
<1>1. CASE S = {}
  BY <1>1 DEF Youngest
<1>2. CASE S # {}
  <2>1. PICK x \in S : x.age = k
    BY <1>2 DEF Youngest
  <2>2. PICK y \in R : y.age <= x.age
    BY <2>1
  <2>3. n <= y.age /\ \E z \in R : z.age = n
    BY <2>2 DEF Youngest
  <2>4. n \in 0 .. AgeMax /\ y.age \in 0 .. AgeMax /\ x.age \in 0 .. AgeMax
    BY <2>3, <2>2, <2>1 DEF Association
  <2> QED BY <2>1, <2>2, <2>3, <2>4, BoundsAssumption
<1> QED BY <1>1, <1>2

\* The news of tables in use is a matter of the records alone.
LEMMA YoungestIsUnique ==
  ASSUME NEW R \in SUBSET Association, NEW n \in -1 .. AgeMax, NEW k \in -1 .. AgeMax,
         Youngest(n, R), Youngest(k, R)
  PROVE  n = k
BY BoundsAssumption DEF Youngest

-----------------------------------------------------------------------------
(* Steps of one board.                                                       *)

NewsBefore(b) == NewsIn(mode[b], ram[b], flash[b], Tracked)
NewsAfter(b) == NewsIn(mode'[b], ram'[b], flash'[b], Tracked)
Before(b) == InUse(mode[b], ram[b], flash[b], Tracked)
After(b) == InUse(mode'[b], ram'[b], flash'[b], Tracked)

\* What the invariant says of the two, before and after a step.
LEMMA NewsFacts ==
  ASSUME IInv, [Next]_vars, NEW b \in Board
  PROVE  /\ Youngest(NewsBefore(b), Before(b)) /\ NewsBefore(b) \in -1 .. AgeMax
         /\ Youngest(NewsAfter(b), After(b)) /\ NewsAfter(b) \in -1 .. AgeMax
         /\ Before(b) \subseteq Association /\ After(b) \subseteq Association
<1>1. ram[b] \in Tables /\ flash[b] \in Tables /\ Unique(ram[b]) /\ Unique(flash[b])
  BY DEF IInv, TypeOK, Good
<1>2. ram'[b] \in Tables /\ flash'[b] \in Tables /\ Unique(ram'[b]) /\ Unique(flash'[b])
  <2>1. IInv'
    BY StepIInv
  <2> QED BY <2>1 DEF IInv, TypeOK, Good, Unique
<1>3. Before(b) \subseteq Association /\ After(b) \subseteq Association
  BY <1>1, <1>2 DEF Before, After, InUse, Held, Tables
<1>4. Youngest(NewsBefore(b), Before(b)) /\ NewsBefore(b) \in -1 .. AgeMax
  BY <1>1, NewsIsYoungest DEF NewsBefore, Before, Unique
<1>5. Youngest(NewsAfter(b), After(b)) /\ NewsAfter(b) \in -1 .. AgeMax
  BY <1>2, NewsIsYoungest DEF NewsAfter, After, Unique
<1> QED BY <1>3, <1>4, <1>5

\* The two states of Rumours that a step relates.
LEMMA MappedStates ==
  /\ [b \in Board |-> NewsAge(b, Tracked)] = [b \in Board |-> NewsBefore(b)]
  /\ [b \in Board |-> NewsAge(b, Tracked)]' = [b \in Board |-> NewsAfter(b)]
BY NewsAgeIs DEF NewsBefore, NewsAfter

\* If the other boards stay as they are, the news of this one fades, and the
\* tracked board does not leave, then Rumours sees rounds pass, or news forgotten.
LEMMA OneBoardFades ==
  ASSUME IInv, [Next]_vars, NEW b \in Board,
         \A h \in Board : h # b => NewsAfter(h) = NewsBefore(h),
         \A x \in After(b) : \E y \in Before(b) : y.age <= x.age,
         (mode'[Tracked] # "off") = (mode[Tracked] # "off")
  PROVE  [News!Next]_(News!vars)
<1> DEFINE old == [h \in Board |-> NewsBefore(h)]
           new == [h \in Board |-> NewsAfter(h)]
           n == NewsBefore(b)
           k == NewsAfter(b)
<1>1. n \in -1 .. AgeMax /\ k \in -1 .. AgeMax
  BY NewsFacts
<1>2. k = -1 \/ (n # -1 /\ n <= k)
  BY NewsFacts, NewsFades
<1>3. new = [old EXCEPT ![b] = k] /\ old[b] = n
  OBVIOUS
<1> HIDE DEF n, k, old, new
<1>4. /\ [h \in Board |-> NewsAge(h, Tracked)] = old
      /\ [h \in Board |-> NewsAge(h, Tracked)]' = new
  BY MappedStates DEF old, new
<1>5. (mode[Tracked] # "off")' = (mode[Tracked] # "off")
  OBVIOUS
<1>6. CASE k = -1
  <2>1. News!Forget(b)
    BY <1>3, <1>4, <1>5, <1>6 DEF News!Forget, News!NoNews
  <2> QED BY <2>1 DEF News!Next
<1>7. CASE k = n
  BY <1>3, <1>4, <1>5, <1>7 DEF News!vars, old
<1>8. CASE n # -1 /\ n < k
  <2> DEFINE j == k - n
  <2>1. j \in 1 .. AgeMax /\ n + j = k /\ ~(n + j > AgeMax)
    BY <1>1, <1>8, BoundsAssumption
  <2>2. News!HasNews(b)
    BY <1>3, <1>4, <1>8 DEF News!HasNews, News!NoNews
  <2>3. News!Older(n, j) = k
    BY <2>1 DEF News!Older
  <2> HIDE DEF j
  <2>4. News!Round(b, j)
    BY <1>3, <1>4, <1>5, <2>2, <2>3 DEF News!Round
  <2> QED BY <2>1, <2>4 DEF News!Next
<1>9. k = -1 \/ k = n \/ (n # -1 /\ n < k)
  BY <1>1, <1>2, BoundsAssumption
<1> QED BY <1>6, <1>7, <1>8, <1>9

-----------------------------------------------------------------------------
(* What is heard.                                                            *)

\* mergeAssociation() drops no origin, ...
LEMMA MergeKeepsPresence ==
  ASSUME NEW s \in Tables, NEW a \in Association, NEW direct \in BOOLEAN,
         NEW o, Held(s, o) # {}
  PROVE  Held(MergeAssociation(s, a, direct), o) # {}
<1>1. PICK r \in s.associations : r.origin = o
  BY DEF Held
<1>2. CASE r.origin # a.origin
  BY <1>1, <1>2, MergeOthers DEF Held
<1>3. CASE r.origin = a.origin /\ ~Merges(s, a, direct)
  BY <1>1, <1>3 DEF Held, MergeAssociation
<1>4. CASE r.origin = a.origin /\ Merges(s, a, direct)
  <2> DEFINE new == [a EXCEPT !.age = IF direct THEN 0 ELSE OlderByOne(a.age)]
  <2>1. new.origin = a.origin
    BY DEF Association
  <2>2. new \in MergeAssociation(s, a, direct).associations
    BY <1>4 DEF MergeAssociation, Tables
  <2> HIDE DEF new
  <2> QED BY <1>1, <1>4, <2>1, <2>2 DEF Held
<1> QED BY <1>2, <1>3, <1>4

\* ... and neither does a relayed entry: the incarnation of an origin with a
\* record is registered, and only a direct report may replace it.
LEMMA EntryKeepsPresence ==
  ASSUME NEW b \in Board, NEW s, Good(b, s), NEW a \in Association,
         NEW o, Held(s, o) # {}
  PROVE  Held(OnEntry(b, s, a), o) # {}
<1> DEFINE t == Accept(s, a.origin, a.epoch)
<1>1. CASE ~Accepts(b, s, a.origin, a.epoch, FALSE)
  BY <1>1 DEF OnEntry
<1>2. CASE Accepts(b, s, a.origin, a.epoch, FALSE)
  <2>1. t \in Tables
    BY AcceptGood DEF Good, Association
  <2>2. PICK r \in s.associations : r.origin = o
    BY DEF Held
  <2>3. r \in t.associations
    <3>1. CASE Same(s, a.origin, a.epoch)
      BY <2>2, <3>1 DEF Accept
    <3>2. CASE ~Same(s, a.origin, a.epoch)
      <4>1. ~Remembers(s, a.origin) /\ a.origin # b
        BY <1>2, <3>2 DEF Accepts
      <4>2. r.origin # a.origin
        <5>1. r.origin # b => Same(s, r.origin, r.epoch)
          BY DEF Good, Consistent
        <5> QED BY <4>1, <5>1 DEF Same, Remembers
      <4> QED BY <4>2, AcceptRecords DEF Good
    <3> QED BY <3>1, <3>2
  <2>4. Held(t, o) # {}
    BY <2>2, <2>3 DEF Held
  <2> HIDE DEF t
  <2>5. Held(MergeAssociation(t, a, FALSE), o) # {}
    BY <2>1, <2>4, MergeKeepsPresence
  <2> QED BY <1>2, <2>5 DEF OnEntry, t
<1> QED BY <1>1, <1>2

\* A report may drop the record of its sender's incarnation before, but then
\* there is room for the new one.
LEMMA ReportKeepsPresence ==
  ASSUME IsFiniteSet(Board), Cardinality(Board) <= Slots,
         NEW b \in Board, NEW s, Good(b, s), NEW m \in Reports, NEW o \in Board,
         Held(s, o) # {}
  PROVE  Held(OnReport(b, s, m), o) # {}
<1> DEFINE t == Accept(s, m.sender, m.incarnation)
           h == HeaderRecord(m)
           heard == MergeAssociation(t, h, TRUE)
           a == CHOOSE a \in m.relayed : TRUE
<1>1. m.sender \in Board /\ m.incarnation \in Epochs
  BY DEF Reports
<1>2. Good(b, t) /\ Same(t, m.sender, m.incarnation)
  BY <1>1, AcceptGood
<1>3. h \in Association /\ h.origin = m.sender /\ h.epoch = m.incarnation
  BY BoundsAssumption DEF HeaderRecord, Record, Association, Reports
<1>4. Good(b, heard)
  <2>1. Same(t, h.origin, h.epoch)
    BY <1>2, <1>3
  <2> QED BY <1>2, <1>3, <2>1, MergeGood
<1>5. m.relayed # {} => a \in Association
  BY DEF Reports
<1> HIDE DEF h, a
<1>6. Held(heard, o) # {}
  <2>1. CASE Held(t, o) # {}
    BY <1>2, <1>3, <2>1, MergeKeepsPresence DEF Good
  <2>2. CASE Held(t, o) = {}
    <3>1. o = m.sender
      <4>1. PICK r \in s.associations : r.origin = o
        BY DEF Held
      <4>2. r \notin t.associations
        BY <2>2, <4>1 DEF Held
      <4> QED BY <4>1, <4>2, AcceptRecords DEF Good
    <3> HIDE DEF t
    <3>2. \A r \in t.associations : r.origin \in Board \ {o}
      BY <1>2, <2>2 DEF Held, Good, Tables, Association
    <3>3. Cardinality(t.associations) < Slots
      BY <1>2, <3>2, RoomLeft DEF Good, Unique
    <3>4. Merges(t, h, TRUE)
      BY <1>3, <3>1, <3>2, <3>3 DEF Merges
    <3> DEFINE new == [h EXCEPT !.age = 0]
    <3>5. new.origin = o
      BY <1>3, <3>1 DEF Association
    <3>6. new \in heard.associations
      BY <1>2, <3>4 DEF MergeAssociation, Good, Tables
    <3> HIDE DEF new, heard
    <3> QED BY <3>5, <3>6 DEF Held
  <2> QED BY <2>1, <2>2
<1> HIDE DEF heard
<1>7. m.relayed # {} => Held(OnEntry(b, heard, a), o) # {}
  BY <1>4, <1>5, <1>6, EntryKeepsPresence
<1>8. OnReport(b, s, m) \in {s, heard} \/
        (m.relayed # {} /\ OnReport(b, s, m) = OnEntry(b, heard, a))
  BY DEF OnReport, heard, t, h, a
<1> QED BY <1>6, <1>7, <1>8

\* If what a hearer's RAM holds is the same, or new and as old as n, then so is
\* its news: the same, as old as n, or older than it was because something
\* younger has been replaced.
LEMMA HeardNews ==
  ASSUME NEW X \in SUBSET Association, NEW X1 \in SUBSET Association,
         NEW Y \in SUBSET Association, NEW n \in 0 .. AgeMax,
         NEW i \in -1 .. AgeMax, NEW k \in -1 .. AgeMax,
         Youngest(i, X \cup Y), Youngest(k, X1 \cup Y),
         \A x, y \in X : x = y, \A x, y \in X1 : x = y,
         X # {} => X1 # {}, \A x \in X1 : x \in X \/ x.age = n
  PROVE  k = i \/ (k = n /\ X1 # {}) \/ (i # -1 /\ k > i /\ k < n)
<1>1. CASE X1 = {}
  <2>1. X = {}
    BY <1>1
  <2> QED BY <1>1, <2>1, YoungestIsUnique
<1>2. ASSUME NEW x \in X1, x \in X PROVE k = i
  <2>1. X = X1
    BY <1>2
  <2> QED BY <2>1, YoungestIsUnique
<1>3. ASSUME NEW x \in X1, x.age = n
      PROVE  k = i \/ k = n \/ (i # -1 /\ k > i /\ k < n)
  <2>1. k <= n /\ k # -1 /\ \E z \in X1 \cup Y : z.age = k
    BY <1>3, BoundsAssumption DEF Youngest, Association
  <2>2. ASSUME k # n PROVE k = i \/ (i # -1 /\ k > i)
    <3>1. PICK y \in Y : y.age = k
      BY <1>3, <2>1, <2>2
    <3>2. i <= k /\ i # -1
      BY <3>1 DEF Youngest, Association
    <3> QED BY <3>2, BoundsAssumption
  <2> QED BY <2>1, <2>2, BoundsAssumption
<1> QED BY <1>1, <1>2, <1>3

-----------------------------------------------------------------------------
(* A broadcast.                                                              *)

\* A record that is merged from a direct report is as old as this round.
LEMMA MergedIsNew ==
  ASSUME NEW s \in Tables, NEW a \in Association,
         NEW x \in MergeAssociation(s, a, TRUE).associations
  PROVE  x \in s.associations \/ x.age = 0
BY MergeRecords

\* What becomes of the news of a board whose RAM changes from r to r1 while its
\* mode and its SPIFFS stay the same.
LEMMA RamNews ==
  ASSUME IInv, [Next]_vars, mode' = mode, flash' = flash, NEW c \in Board, Running(c),
         NEW n \in 0 .. AgeMax,
         Held(ram[c], Tracked) # {} => Held(ram'[c], Tracked) # {},
         \A x \in Held(ram'[c], Tracked) : x \in ram[c].associations \/ x.age = n
  PROVE  \/ NewsAfter(c) = NewsBefore(c)
         \/ NewsAfter(c) = n /\ Held(ram'[c], Tracked) # {}
         \/ NewsBefore(c) # -1 /\ NewsAfter(c) > NewsBefore(c) /\ NewsAfter(c) < n
<1> DEFINE X == Held(ram[c], Tracked)
           X1 == Held(ram'[c], Tracked)
           Y == IF mode[c] = "saving" THEN Held(flash[c], Tracked) ELSE {}
<1>1. Before(c) = X \cup Y /\ After(c) = X1 \cup Y
  BY DEF Before, After, InUse, Running
<1>2. /\ Youngest(NewsBefore(c), X \cup Y) /\ NewsBefore(c) \in -1 .. AgeMax
      /\ Youngest(NewsAfter(c), X1 \cup Y) /\ NewsAfter(c) \in -1 .. AgeMax
      /\ X \cup Y \subseteq Association /\ X1 \cup Y \subseteq Association
  BY <1>1, NewsFacts
<1>3. \A x, y \in X : x = y
  BY DEF IInv, Good, Unique, OnePerOrigin, Held
<1>4. \A x, y \in X1 : x = y
  <2>1. IInv'
    BY StepIInv
  <2> QED BY <2>1 DEF IInv, Good, Unique, OnePerOrigin, Held
<1>5. \A x \in X1 : x \in X \/ x.age = n
  BY DEF Held
<1> HIDE DEF X, X1, Y
<1>6. (X # {} => X1 # {}) /\ X \subseteq Association /\ X1 \subseteq Association /\ Y \subseteq Association
  BY <1>2 DEF X, X1
<1>7. \/ NewsAfter(c) = NewsBefore(c)
      \/ NewsAfter(c) = n /\ X1 # {}
      \/ NewsBefore(c) # -1 /\ NewsAfter(c) > NewsBefore(c) /\ NewsAfter(c) < n
  BY <1>2, <1>3, <1>4, <1>5, <1>6, HeardNews
<1> QED BY <1>7 DEF X1

\* A board whose records of the tracked origin stay the same.
LEMMA SameNews ==
  ASSUME NEW c \in Board, mode'[c] = mode[c], flash'[c] = flash[c],
         Held(ram'[c], Tracked) = Held(ram[c], Tracked)
  PROVE  NewsAfter(c) = NewsBefore(c)
BY DEF NewsAfter, NewsBefore, NewsIn, InUse

\* A broadcast of the tracked board is heard by some, as news of this round.
LEMMA TrackedSpeaks ==
  ASSUME IInv, [Next]_vars, IsFiniteSet(Board), Cardinality(Board) <= Slots,
         Tracked \in Board, OwnInv(Tracked), Publish(Tracked)
  PROVE  News!Speak
<1> DEFINE b == Tracked
           own == Record(b, ram[b].incarnation, ram[b].wakeGeneration, 0)
           s == MergeAssociation(ram[b], own, TRUE)
           packet(relayed) == [sender |-> b, incarnation |-> s.incarnation,
                               wakeGeneration |-> s.wakeGeneration,
                               relayed |-> relayed]
<1>1. /\ ram[b].incarnation \in Epochs /\ ram[b].wakeGeneration \in 1 .. GenMax
      /\ Good(b, ram[b]) /\ mode[b] = "awake" /\ mode' = mode /\ flash' = flash
  BY DEF Publish, IInv, Identified, Running
<1>2. own \in Association /\ own.origin = b /\ own.age = 0 /\ own.gen = ram[b].wakeGeneration
  BY <1>1, BoundsAssumption DEF Record, Association
<1>3. Good(b, s) /\ SameIdentity(ram[b], s)
  BY <1>1, <1>2, MergeGood, MergeKeepsIdentity DEF Good
<1>4. PICK relayed \in {{}} \cup {{a} : a \in {x \in s.associations : IsFresh(x)}},
           hearers \in SUBSET {h \in Board \ {b} : Running(h)} :
        ram' = [h \in Board |-> IF h = b THEN s
                               ELSE IF h \in hearers THEN OnReport(h, ram[h], packet(relayed))
                               ELSE ram[h]]
  BY DEF Publish
<1>5. own = HeaderRecord(packet(relayed))
  BY <1>3 DEF HeaderRecord, SameIdentity
<1>6. ASSUME NEW a \in relayed, a.origin = b PROVE a = own
  <2>1. a \in s.associations
    BY <1>6
  <2>2. OwnExact(b, ram[b])
    BY <1>1 DEF OwnInv, Publish, Running
  <2>3. ASSUME NEW x \in ram[b].associations, x.origin = b PROVE x.gen <= own.gen
    BY <1>2, <2>2, <2>3 DEF OwnExact
  <2>4. Merges(ram[b], own, TRUE)
    <3>1. CASE a \in ram[b].associations
      <4>1. \A x \in ram[b].associations : x.origin = b => x.gen \in Nat /\ own.gen >= x.gen
        BY <1>1, <1>2, <2>3, BoundsAssumption DEF Good, Tables, Association
      <4> QED BY <1>2, <1>6, <3>1, <4>1 DEF Merges
    <3>2. CASE a \notin ram[b].associations
      BY <1>1, <1>2, <2>1, <3>2, MergeRecords DEF Good
    <3> QED BY <3>1, <3>2
  <2>5. s.associations = {x \in ram[b].associations : x.origin # b} \cup {[own EXCEPT !.age = 0]}
    BY <1>1, <1>2, <2>4 DEF MergeAssociation, Good, Tables
  <2>6. [own EXCEPT !.age = 0] = own
    BY DEF Record
  <2> QED BY <1>6, <2>1, <2>5, <2>6
<1> HIDE DEF s, own
<1>7. relayed \subseteq Association
  BY <1>3 DEF Good, Tables
<1>8. packet(relayed) \in Reports /\ packet(relayed).relayed = relayed
  BY <1>1, <1>3, <1>7 DEF SameIdentity, Reports
<1> HIDE DEF packet
<1>9. ASSUME NEW c \in Board PROVE NewsAfter(c) \in {0, NewsBefore(c)}
  <2>1. CASE c = b
    <3>1. ram'[c] = s /\ Running(c)
      BY <1>1, <1>4, <2>1 DEF Running
    <3>2. Held(ram[c], b) # {} => Held(s, b) # {}
      BY <1>1, <1>2, <2>1, MergeKeepsPresence DEF Good, s
    <3>3. \A x \in Held(s, b) : x \in ram[c].associations \/ x.age = 0
      <4>1. ASSUME NEW x \in s.associations PROVE x \in ram[b].associations \/ x.age = 0
        <5>1. ram[b] \in Tables /\ x \in MergeAssociation(ram[b], own, TRUE).associations
          BY <1>1 DEF Good, s
        <5> QED BY <1>2, <5>1, MergedIsNew
      <4> QED BY <2>1, <4>1 DEF Held
    <3> QED BY <1>1, <3>1, <3>2, <3>3, RamNews, NewsFacts, BoundsAssumption
  <2>2. CASE c # b /\ c \in hearers
    <3>1. ram'[c] = OnReport(c, ram[c], packet(relayed)) /\ Running(c) /\ Good(c, ram[c])
      BY <1>4, <2>2 DEF IInv
    <3>2. Held(ram[c], b) # {} => Held(ram'[c], b) # {}
      BY <1>8, <3>1, ReportKeepsPresence
    <3>3. \A x \in Held(ram'[c], b) : x \in ram[c].associations \/ x.age = 0
      BY <1>2, <1>5, <1>6, <1>8, <3>1, ReportRecords DEF Descends, Held
    <3> QED BY <1>1, <3>1, <3>2, <3>3, RamNews, NewsFacts, BoundsAssumption
  <2>3. CASE c # b /\ c \notin hearers
    BY <1>1, <1>4, <2>3, SameNews
  <2> QED BY <2>1, <2>2, <2>3
<1>10. /\ [h \in Board |-> NewsAge(h, Tracked)] = [h \in Board |-> NewsBefore(h)]
       /\ [h \in Board |-> NewsAge(h, Tracked)]' = [h \in Board |-> NewsAfter(h)]
  BY MappedStates
<1>11. [h \in Board |-> NewsAfter(h)] \in [Board -> News!Age]
  BY NewsFacts DEF News!Age, News!NoNews
<1>12. (mode[Tracked] # "off")' = (mode[Tracked] # "off") /\ mode[Tracked] # "off"
  BY <1>1
<1> DEFINE new == [h \in Board |-> NewsAfter(h)]
           old == [h \in Board |-> NewsBefore(h)]
<1>13. \A c \in Board : new[c] \in {0, old[c]}
  BY <1>9
<1> HIDE DEF new, old
<1>14. new \in {heard \in [Board -> News!Age] : \A c \in Board : heard[c] \in {0, old[c]}}
  BY <1>11, <1>13 DEF new
<1> QED BY <1>10, <1>12, <1>14 DEF News!Speak, new, old

\* Any other board's broadcast repeats the news, or has nothing to do with it.
LEMMA OthersRepeat ==
  ASSUME IInv, [Next]_vars, IsFiniteSet(Board), Cardinality(Board) <= Slots,
         Tracked \in Board, NEW b \in Board \ {Tracked}, Publish(b)
  PROVE  [News!Next]_(News!vars)
<1> DEFINE own == Record(b, ram[b].incarnation, ram[b].wakeGeneration, 0)
           s == MergeAssociation(ram[b], own, TRUE)
           packet(relayed) == [sender |-> b, incarnation |-> s.incarnation,
                               wakeGeneration |-> s.wakeGeneration,
                               relayed |-> relayed]
<1>1. /\ ram[b].incarnation \in Epochs /\ ram[b].wakeGeneration \in 1 .. GenMax
      /\ Good(b, ram[b]) /\ mode[b] = "awake" /\ mode' = mode /\ flash' = flash
  BY DEF Publish, IInv, Identified, Running
<1>2. own \in Association /\ own.origin = b
  BY <1>1, BoundsAssumption DEF Record, Association
<1>3. /\ Good(b, s) /\ SameIdentity(ram[b], s)
      /\ Held(s, Tracked) = Held(ram[b], Tracked)
  <2>1. Good(b, s) /\ SameIdentity(ram[b], s)
    BY <1>1, <1>2, MergeGood, MergeKeepsIdentity DEF Good
  <2>2. \A x : x.origin = Tracked => (x \in s.associations <=> x \in ram[b].associations)
    BY <1>1, <1>2, MergeOthers DEF Good
  <2> QED BY <2>1, <2>2 DEF Held
<1>4. PICK relayed \in {{}} \cup {{a} : a \in {x \in s.associations : IsFresh(x)}},
           hearers \in SUBSET {h \in Board \ {b} : Running(h)} :
        ram' = [h \in Board |-> IF h = b THEN s
                               ELSE IF h \in hearers THEN OnReport(h, ram[h], packet(relayed))
                               ELSE ram[h]]
  BY DEF Publish
<1>5. HeaderRecord(packet(relayed)).origin = b
  BY DEF HeaderRecord, Record
<1> HIDE DEF s, own
<1>6. relayed \subseteq Association
  BY <1>3 DEF Good, Tables
<1>7. packet(relayed) \in Reports /\ packet(relayed).relayed = relayed
  BY <1>1, <1>3, <1>6 DEF SameIdentity, Reports
<1> HIDE DEF packet
<1>8. ASSUME NEW c \in hearers
      PROVE  /\ c \in Board /\ Running(c) /\ ram'[c] = OnReport(c, ram[c], packet(relayed))
             /\ Held(ram[c], Tracked) # {} => Held(ram'[c], Tracked) # {}
             /\ \A x \in Held(ram'[c], Tracked) :
                  \/ x \in ram[c].associations
                  \/ \E a \in relayed : a.origin = Tracked /\ x.age = OlderByOne(a.age)
  <2>1. c \in Board /\ Running(c) /\ ram'[c] = OnReport(c, ram[c], packet(relayed)) /\ Good(c, ram[c])
    BY <1>4, <1>8 DEF IInv
  <2>2. Held(ram[c], Tracked) # {} => Held(ram'[c], Tracked) # {}
    BY <1>7, <2>1, ReportKeepsPresence
  <2>3. \A x \in Held(ram'[c], Tracked) :
          \/ x \in ram[c].associations
          \/ \E a \in relayed : a.origin = Tracked /\ x.age = OlderByOne(a.age)
    BY <1>5, <1>7, <2>1, ReportRecords DEF Descends, Held
  <2> QED BY <2>1, <2>2, <2>3
<1>9. \A c \in Board : c \notin hearers => NewsAfter(c) = NewsBefore(c)
  <2>1. NewsAfter(b) = NewsBefore(b)
    BY <1>1, <1>3, <1>4, SameNews
  <2>2. \A c \in Board : c # b /\ c \notin hearers => NewsAfter(c) = NewsBefore(c)
    BY <1>1, <1>4, SameNews
  <2> QED BY <2>1, <2>2
<1> DEFINE new == [h \in Board |-> NewsAfter(h)]
           old == [h \in Board |-> NewsBefore(h)]
<1>10. /\ [h \in Board |-> NewsAge(h, Tracked)] = old
       /\ [h \in Board |-> NewsAge(h, Tracked)]' = new
       /\ (mode[Tracked] # "off")' = (mode[Tracked] # "off")
  BY <1>1, MappedStates
<1>11. CASE \A a \in relayed : a.origin # Tracked
  <2>1. ASSUME NEW c \in hearers PROVE Held(ram'[c], Tracked) = Held(ram[c], Tracked)
    <3>1. Held(ram'[c], Tracked) \subseteq Held(ram[c], Tracked)
      BY <1>8, <1>11 DEF Held
    <3>2. \A x, y \in Held(ram[c], Tracked) : x = y
      BY <1>8 DEF IInv, Good, Unique, OnePerOrigin, Held
    <3> QED BY <1>8, <3>1, <3>2
  <2>2. \A c \in Board : NewsAfter(c) = NewsBefore(c)
    BY <1>1, <1>8, <1>9, <2>1, SameNews
  <2> QED BY <1>10, <2>2 DEF News!vars
<1>12. ASSUME NEW a \in relayed, a.origin = Tracked
       PROVE  [News!Next]_(News!vars)
  <2> DEFINE n == OlderByOne(a.age)
  <2>1. relayed = {a} /\ a \in Held(ram[b], Tracked) /\ a.age <= Fresh /\ a.age \in 0 .. AgeMax
    <3>1. a \in s.associations /\ IsFresh(a) /\ relayed = {a}
      BY <1>4
    <3>2. a \in Held(s, Tracked)
      BY <1>12, <3>1 DEF Held
    <3>3. a \in Association
      BY <1>6
    <3> QED BY <1>3, <3>1, <3>2, <3>3 DEF IsFresh, Association
  <2>2. n \in 0 .. AgeMax /\ n = News!Older(a.age, 1)
    BY <2>1, BoundsAssumption DEF OlderByOne, News!Older
  <2>3. NewsBefore(b) = a.age
    <3>1. Before(b) = {a}
      <4>1. Before(b) = Held(ram[b], Tracked)
        BY <1>1 DEF Before, InUse
      <4>2. \A x, y \in Held(ram[b], Tracked) : x = y
        BY <1>1 DEF Good, Unique, OnePerOrigin, Held
      <4> QED BY <2>1, <4>1, <4>2
    <3>2. Youngest(NewsBefore(b), {a})
      BY <3>1, NewsFacts
    <3> QED BY <3>2 DEF Youngest
  <2>4. ASSUME NEW c \in Board
        PROVE  \/ new[c] = old[c]
               \/ new[c] >= n
               \/ old[c] # -1 /\ new[c] > old[c]
    <3>1. CASE c \in hearers
      <4>1. \A x \in Held(ram'[c], Tracked) : x \in ram[c].associations \/ x.age = n
        BY <1>8, <2>1, <3>1
      <4> HIDE DEF n
      <4>2. \/ NewsAfter(c) = NewsBefore(c)
            \/ NewsAfter(c) = n
            \/ NewsBefore(c) # -1 /\ NewsAfter(c) > NewsBefore(c)
        BY <1>1, <1>8, <2>2, <3>1, <4>1, RamNews
      <4>3. NewsAfter(c) = n => NewsAfter(c) >= n
        BY <2>2, BoundsAssumption
      <4> QED BY <4>2, <4>3
    <3>2. CASE c \notin hearers
      BY <1>9, <3>2
    <3> QED BY <3>1, <3>2
  <2>5. new \in [Board -> News!Age]
    BY NewsFacts DEF News!Age, News!NoNews
  <2>6. old[b] = a.age
    BY <2>3
  <2> HIDE DEF n, new, old
  <2>7. new \in {told \in [Board -> News!Age] : \A c \in Board :
                   \/ told[c] = old[c]
                   \/ told[c] >= News!Older(old[b], 1)
                   \/ old[c] # -1 /\ told[c] > old[c]}
    BY <2>2, <2>4, <2>5, <2>6
  <2>8. News!Counted(b)
    BY <1>10, <2>1, <2>6 DEF News!Counted, News!HasNews, News!NoNews
  <2>9. News!Repeat(b)
    BY <1>10, <2>7, <2>8 DEF News!Repeat, News!HasNews, News!NoNews
  <2> QED BY <2>9 DEF News!Next
<1> QED BY <1>11, <1>12

-----------------------------------------------------------------------------
(* Every step.                                                               *)

\* A step of one board that only loses records, or makes them older.
LEMMA LosingFades ==
  ASSUME IInv, [Next]_vars, NEW b \in Board,
         \A h \in Board : h # b => mode'[h] = mode[h] /\ ram'[h] = ram[h] /\ flash'[h] = flash[h],
         After(b) \subseteq Before(b),
         (mode'[Tracked] # "off") = (mode[Tracked] # "off")
  PROVE  [News!Next]_(News!vars)
<1>1. \A h \in Board : h # b => NewsAfter(h) = NewsBefore(h)
  BY DEF NewsAfter, NewsBefore
<1>2. \A x \in After(b) : \E y \in Before(b) : y.age <= x.age
  <2>1. \A x \in Before(b) : x.age <= x.age
    BY NewsFacts, BoundsAssumption DEF Association
  <2> QED BY <2>1
<1> QED BY <1>1, <1>2, OneBoardFades

\* Simulation: what each step is in Rumours.
LEMMA StepAges ==
  ASSUME IInv, [Next]_vars, Crashable = {}, IsFiniteSet(Board), Cardinality(Board) <= Slots,
         Tracked \in Board, OwnInv(Tracked), NEW b \in Board, Step(b)
  PROVE  [News!Next]_(News!vars)
<1> DEFINE Alone == \A h \in Board : h # b =>
                      mode'[h] = mode[h] /\ ram'[h] = ram[h] /\ flash'[h] = flash[h]
<1>1. CASE Boot(b)
  <2>1. Alone /\ mode[b] = "asleep" /\ mode'[b] = "awake"
    BY <1>1 DEF Boot, IInv, TypeOK
  <2>2. ram'[b].associations \subseteq flash[b].associations
    <3> DEFINE gen == FirstRound(flash[b])
    <3>1. PICK e \in IF flash[b].incarnation = NoEpoch THEN RandomIncarnation(b)
                     ELSE {flash[b].incarnation} :
            ram' = [ram EXCEPT ![b] =
                     AcceptOrigin(b, [Reloaded(flash[b]) EXCEPT !.incarnation = e,
                                                                !.wakeGeneration = gen],
                                  b, e, TRUE)]
      BY <1>1 DEF Boot
    <3> DEFINE started == [Reloaded(flash[b]) EXCEPT !.incarnation = e, !.wakeGeneration = gen]
    <3>2. flash[b] \in Tables /\ Unique(flash[b]) /\ e \in Epochs
      BY <3>1, RandomIncarnationType DEF IInv, TypeOK, Tables
    <3>3. gen \in 0 .. GenMax
      BY <3>2, BoundsAssumption DEF FirstRound, Tables
    <3>4. started \in Tables
      BY <3>2, <3>3, ReloadedGood, RenamedGood DEF Good
    <3>5. started.associations \subseteq flash[b].associations
      <4>1. Reloaded(flash[b]) \in Tables
        BY <3>2, ReloadedGood DEF Good
      <4>2. Reloaded(flash[b]).associations \subseteq flash[b].associations
        BY <3>2 DEF Reloaded, Tables
      <4> HIDE DEF gen
      <4> QED BY <4>1, <4>2 DEF Tables
    <3>6. ram' = [ram EXCEPT ![b] = AcceptOrigin(b, started, b, e, TRUE)]
      BY <3>1
    <3> HIDE DEF started
    <3>7. ram'[b] = started \/ ram'[b] = Accept(started, b, e)
      BY <3>6 DEF AcceptOrigin, IInv, TypeOK
    <3> QED BY <3>4, <3>5, <3>7, AcceptRecords
  <2>3. After(b) \subseteq Before(b)
    BY <2>1, <2>2 DEF After, Before, InUse, Held
  <2> QED BY <2>1, <2>3, LosingFades
<1>2. CASE Publish(b)
  <2>1. CASE b = Tracked
    BY <1>2, <2>1, TrackedSpeaks DEF News!Next
  <2>2. CASE b # Tracked
    BY <1>2, <2>2, OthersRepeat
  <2> QED BY <2>1, <2>2
<1>3. ASSUME NEW k \in 1 .. MaxElapsed, AdvanceRound(b, k)
      PROVE  [News!Next]_(News!vars)
  <2>1. /\ \A h \in Board : h # b => ram'[h] = ram[h] /\ flash'[h] = flash[h]
        /\ mode' = mode /\ mode[b] = "awake"
    BY <1>3 DEF AdvanceRound, IInv, TypeOK
  <2>2. \A h \in Board : h # b => NewsAfter(h) = NewsBefore(h)
    BY <2>1 DEF NewsAfter, NewsBefore
  <2>3. ASSUME NEW x \in After(b) PROVE \E y \in Before(b) : y.age <= x.age
    <3>1. x \in ram'[b].associations /\ x.origin = Tracked
      BY <2>1 DEF After, InUse, Held
    <3>2. PICK a \in ram[b].associations : x = [a EXCEPT !.age = Aged(a.age, k)]
      BY <1>3, <3>1, AdvanceRoundAges
    <3>3. a \in Association /\ k \in Nat
      BY TablesKnown, BoundsAssumption
    <3>4. a.age <= x.age /\ a.origin = x.origin
      BY <3>2, <3>3, BoundsAssumption DEF Association, Aged
    <3>5. a \in Before(b)
      BY <2>1, <3>1, <3>4 DEF Before, InUse, Held
    <3> QED BY <3>4, <3>5
  <2> QED BY <2>1, <2>2, <2>3, OneBoardFades
<1>4. CASE TestReset(b)
  <2>1. Alone /\ mode' = mode /\ mode[b] = "awake"
    BY <1>4 DEF TestReset, IInv, TypeOK
  <2>2. ram'[b].associations = {}
    BY <1>4 DEF TestReset, IInv, TypeOK, Tables
  <2>3. After(b) \subseteq Before(b)
    BY <2>1, <2>2 DEF After, InUse, Held
  <2> QED BY <2>1, <2>3, LosingFades
<1>5. CASE SaveAssociations(b)
  <2>1. Alone /\ mode[b] = "awake" /\ mode'[b] = "saving" /\ ram'[b] = ram[b]
    BY <1>5 DEF SaveAssociations, IInv, TypeOK
  <2>2. flash'[b].associations = ram[b].associations
    BY <1>5 DEF SaveAssociations, IInv, TypeOK, Tables
  <2>3. After(b) \subseteq Before(b)
    BY <2>1, <2>2 DEF After, Before, InUse, Held
  <2> QED BY <2>1, <2>3, LosingFades
<1>6. CASE SaveOriginsStayAwake(b)
  <2>1. Alone /\ mode[b] = "saving" /\ mode'[b] = "awake" /\ ram'[b] = ram[b]
    BY <1>6 DEF SaveOriginsStayAwake, IInv, TypeOK
  <2>2. After(b) \subseteq Before(b)
    BY <2>1 DEF After, Before, InUse
  <2> QED BY <2>1, <2>2, LosingFades
<1>7. CASE SaveOriginsAndSleep(b)
  <2>1. PICK gen \in {ram[b].wakeGeneration} \cup
                     IF flash[b].incarnation = NoEpoch THEN {0} ELSE {} :
          flash' = [flash EXCEPT ![b].originEpochs = ram[b].originEpochs,
                                 ![b].wakeGeneration = gen]
    BY <1>7 DEF SaveOriginsAndSleep
  <2>2. flash'[b].associations = flash[b].associations
    BY <2>1 DEF IInv, TypeOK, Tables
  <2>3. Alone /\ mode[b] = "saving" /\ mode'[b] = "asleep"
    BY <1>7, <2>1 DEF SaveOriginsAndSleep, IInv, TypeOK
  <2>4. After(b) \subseteq Before(b)
    BY <2>2, <2>3 DEF After, Before, InUse, Held
  <2> QED BY <2>3, <2>4, LosingFades
<1>8. CASE ColdReset(b)
  <2>1. Alone /\ mode[b] # "off" /\ mode'[b] = "asleep" /\ flash'[b].associations = {}
    BY <1>8 DEF ColdReset, IInv, TypeOK, Blank
  <2>2. After(b) \subseteq Before(b)
    BY <2>1 DEF After, InUse, Held
  <2> QED BY <2>1, <2>2, LosingFades
<1>9. CASE PowerOff(b)
  <2>1. Alone /\ mode[b] # "off" /\ mode'[b] = "off"
    BY <1>9 DEF PowerOff, IInv, TypeOK
  <2>2. After(b) = {}
    BY <2>1 DEF After, InUse
  <2>3. CASE b # Tracked
    BY <2>1, <2>2, <2>3, LosingFades
  <2>4. CASE b = Tracked
    <3> DEFINE old == [h \in Board |-> NewsBefore(h)]
               new == [h \in Board |-> NewsAfter(h)]
    <3>1. \A h \in Board : h # b => NewsAfter(h) = NewsBefore(h)
      BY <2>1 DEF NewsAfter, NewsBefore
    <3>2. NewsAfter(b) = -1
      BY <2>2, NewsFacts DEF Youngest
    <3>3. new = [h \in Board |-> IF h \in {b} THEN -1 ELSE old[h]]
      BY <3>1, <3>2
    <3>4. /\ [h \in Board |-> NewsAge(h, Tracked)] = old
          /\ [h \in Board |-> NewsAge(h, Tracked)]' = new
      BY MappedStates
    <3> HIDE DEF old, new
    <3>5. (mode[Tracked] # "off") /\ (mode[Tracked] # "off")' = FALSE
      BY <2>1, <2>4
    <3>6. News!Silence
      <4>1. \E gone \in SUBSET Board :
              new = [h \in Board |-> IF h \in gone THEN -1 ELSE old[h]]
        BY <3>3
      <4>2. \E gone \in SUBSET Board :
              [h \in Board |-> NewsAge(h, Tracked)]' =
                [h \in Board |-> IF h \in gone THEN -1
                                 ELSE [g \in Board |-> NewsAge(g, Tracked)][h]]
        BY <3>4, <4>1, Zenon
      <4> QED BY <3>5, <4>2, Zenon DEF News!Silence, News!NoNews
    <3> QED BY <3>6 DEF News!Next
  <2> QED BY <2>3, <2>4
<1>10. ~Crash(b)
  BY DEF Crash
<1> QED BY <1>1, <1>2, <1>3, <1>4, <1>5, <1>6, <1>7, <1>8, <1>9, <1>10 DEF Step

\* On a farm of at most as many boards as a table has entries, and as long as
\* nothing panics, the news of each board grows old as Rumours says
\* (AgesLikeRumours): so what Rumours promises of a silent board holds of it.
THEOREM GossipImplementsRumours ==
  ASSUME Crashable = {}, IsFiniteSet(Board), Cardinality(Board) <= Slots, Tracked \in Board
  PROVE  Spec => AgesLikeRumours
<1> DEFINE Own == \A h \in Board : OwnInv(h)
           Inv == IInv /\ Numbered /\ Own
<1>1. Init => Inv /\ News!Init
  <2>1. Init => Numbered /\ Own
    BY DEF Init, Numbered, OwnInv, Running, Blank
  <2>2. ASSUME Init PROVE News!Init
    <3>1. \A h \in Board : Usable(h, Tracked) = {}
      BY <2>2 DEF Init, Usable, Blank, Running
    <3>2. \A h \in Board : NewsAge(h, Tracked) = -1
      BY <3>1 DEF NewsAge
    <3> QED BY <2>2, <3>2 DEF News!Init, News!NoNews, Init
  <2> QED BY <2>1, <2>2, InitIInv
<1>2. Inv /\ [Next]_vars => Inv'
  BY StepIInv, IdentityAdvances, StepOwn
<1>3. Inv /\ [Next]_vars => [News!Next]_(News!vars)
  <2> SUFFICES ASSUME Inv, [Next]_vars PROVE [News!Next]_(News!vars)
    OBVIOUS
  <2>1. CASE Next
    <3>1. PICK b \in Board : Step(b)
      BY <2>1 DEF Next
    <3> QED BY <3>1, StepAges
  <2>2. CASE UNCHANGED vars
    <3>1. UNCHANGED News!vars
      <4>1. \A h \in Board : NewsAge(h, Tracked)' = NewsAge(h, Tracked)
        BY <2>2 DEF vars, NewsAge, Usable, Running
      <4> QED BY <2>2, <4>1 DEF vars, News!vars
    <3> QED BY <3>1
  <2> QED BY <2>1, <2>2
<1> HIDE DEF Inv
<1> QED BY <1>1, <1>2, <1>3, PTL DEF Spec, AgesLikeRumours, News!Spec

-----------------------------------------------------------------------------
(* What Rumours itself promises, and so what Gossip inherits from it: once  *)
(* an origin has gone silent, its news only grows older.                    *)

\* Rounds make news older, up to AgeMax.
LEMMA OlderBounds ==
  ASSUME NEW n \in 0 .. AgeMax, NEW k \in Nat
  PROVE  News!Older(n, k) \in n .. AgeMax
  BY BoundsAssumption DEF News!Older

\* Ages stay within their bounds.
LEMMA NewsTyped == News!Spec => []News!TypeOK
<1> DEFINE age == [b \in Board |-> NewsAge(b, Tracked)]
<1>1. News!Init => News!TypeOK
  BY BoundsAssumption DEF News!Init, News!TypeOK, News!Age, News!NoNews
<1>2. News!TypeOK /\ [News!Next]_(News!vars) => News!TypeOK'
  <2> SUFFICES ASSUME News!TypeOK, [News!Next]_(News!vars) PROVE News!TypeOK'
    OBVIOUS
  <2>0. age \in [Board -> News!Age]
    BY DEF News!TypeOK
  <2>t. age' \in [Board -> News!Age] => News!TypeOK'
    BY DEF News!TypeOK, News!Age, News!NoNews
  <2>1. CASE News!Speak
    BY <2>1, <2>t DEF News!Speak
  <2>2. ASSUME NEW b \in Board, News!Repeat(b) PROVE News!TypeOK'
    BY <2>2, <2>t DEF News!Repeat
  <2>3. ASSUME NEW b \in Board, News!Forget(b) PROVE News!TypeOK'
    <3>1. age' = [age EXCEPT ![b] = News!NoNews]
      BY <2>3 DEF News!Forget
    <3> HIDE DEF age
    <3>2. age' \in [Board -> News!Age]
      BY <2>0, <3>1, BoundsAssumption DEF News!Age, News!NoNews
    <3> QED BY <3>2, <2>t DEF age
  <2>4. ASSUME NEW b \in Board, NEW k \in 1 .. AgeMax, News!Round(b, k) PROVE News!TypeOK'
    <3>1. age' = [age EXCEPT ![b] = News!Older(@, k)] /\ age[b] # News!NoNews
      BY <2>4 DEF News!Round, News!HasNews
    <3> HIDE DEF age
    <3>2. age[b] \in 0 .. AgeMax
      BY <2>0, <3>1, BoundsAssumption DEF News!Age, News!NoNews
    <3>3. News!Older(age[b], k) \in age[b] .. AgeMax
      <4>1. k \in Nat
        OBVIOUS
      <4> QED BY <3>2, <4>1, OlderBounds
    <3>4. News!Older(age[b], k) \in News!Age
      BY <3>2, <3>3, BoundsAssumption DEF News!Age, News!NoNews
    <3>5. age' \in [Board -> News!Age]
      BY <2>0, <3>1, <3>4
    <3> QED BY <3>5, <2>t DEF age
  <2>5. CASE News!Silence
    <3>1. PICK gone \in SUBSET Board :
            age' = [b \in Board |-> IF b \in gone THEN News!NoNews ELSE age[b]]
      BY <2>5 DEF News!Silence
    <3> HIDE DEF age
    <3>2. age' \in [Board -> News!Age]
      BY <2>0, <3>1, BoundsAssumption DEF News!Age, News!NoNews
    <3> QED BY <3>2, <2>t DEF age
  <2>6. CASE UNCHANGED News!vars
    <3>1. age' = age
      BY <2>6 DEF News!vars
    <3> HIDE DEF age
    <3>2. age' \in [Board -> News!Age]
      BY <2>0, <3>1 
    <3> QED BY <3>2, <2>t DEF age
  <2> QED BY <2>1, <2>2, <2>3, <2>4, <2>5, <2>6 DEF News!Next
<1> QED BY <1>1, <1>2, PTL DEF News!Spec

\* What Rumours promises, of any farm that gossips as it says.
LEMMA NewsNeverYounger == News!Spec => News!NeverYounger
<1> DEFINE age == [b \in Board |-> NewsAge(b, Tracked)]
           HeldBy(n) == \E c \in Board : age[c] # News!NoNews /\ age[c] <= n
<1>1. ASSUME News!TypeOK, ~(mode[Tracked] # "off"), [News!Next]_(News!vars),
             NEW b \in Board, age'[b] # News!NoNews
      PROVE  HeldBy(age'[b])
  <2>0. age \in [Board -> News!Age]
    BY <1>1 DEF News!TypeOK
  <2>1. CASE age'[b] = age[b]
    <3> HIDE DEF age
    <3> QED BY <1>1, <2>0, <2>1, BoundsAssumption DEF News!Age, News!NoNews
  <2>2. ASSUME NEW c \in Board, News!Repeat(c) PROVE HeldBy(age'[b])
    <3>1. /\ age[c] # News!NoNews /\ age' \in [Board -> News!Age]
          /\ \/ age'[b] = age[b]
             \/ age'[b] >= News!Older(age[c], 1)
             \/ age[b] # News!NoNews /\ age'[b] > age[b]
      BY <2>2 DEF News!Repeat, News!Counted, News!HasNews
    <3> HIDE DEF age
    <3>2. /\ age[c] \in 0 .. AgeMax /\ age[b] \in -1 .. AgeMax /\ age'[b] \in -1 .. AgeMax
      BY <2>0, <3>1, BoundsAssumption DEF News!Age, News!NoNews
    <3>3. News!Older(age[c], 1) \in age[c] .. AgeMax
      BY <3>2, OlderBounds
    <3>4. CASE age'[b] >= News!Older(age[c], 1)
      <4>1. age[c] <= age'[b]
        BY <3>2, <3>3, <3>4, BoundsAssumption
      <4> QED BY <3>1, <4>1
    <3>5. CASE age[b] # News!NoNews /\ age'[b] > age[b]
      BY <3>2, <3>5
    <3> QED BY <2>1, <3>1, <3>4, <3>5
  <2>3. ASSUME NEW c \in Board, News!Forget(c) PROVE HeldBy(age'[b])
    <3>1. age' = [age EXCEPT ![c] = News!NoNews]
      BY <2>3 DEF News!Forget
    <3> HIDE DEF age
    <3> QED BY <1>1, <2>0, <2>1, <3>1
  <2>4. ASSUME NEW c \in Board, NEW k \in 1 .. AgeMax, News!Round(c, k) PROVE HeldBy(age'[b])
    <3>1. age' = [age EXCEPT ![c] = News!Older(@, k)] /\ age[c] # News!NoNews
      BY <2>4 DEF News!Round, News!HasNews
    <3> HIDE DEF age
    <3>2. age[c] \in 0 .. AgeMax /\ k \in Nat
      BY <2>0, <3>1, BoundsAssumption DEF News!Age, News!NoNews
    <3>3. News!Older(age[c], k) \in age[c] .. AgeMax
      BY <3>2, OlderBounds
    <3>4. CASE b = c
      <4>1. age[c] <= age'[b]
        BY <2>0, <3>1, <3>2, <3>3, <3>4, BoundsAssumption
      <4> QED BY <3>1, <4>1
    <3>5. CASE b # c
      BY <2>0, <2>1, <3>1, <3>5
    <3> QED BY <3>4, <3>5
  <2>5. CASE UNCHANGED News!vars
    <3>1. age' = age
      BY <2>5 DEF News!vars
    <3> HIDE DEF age
    <3> QED BY <2>1, <3>1
  <2>6. ~News!Speak /\ ~News!Silence
    BY <1>1 DEF News!Speak, News!Silence
  <2> HIDE DEF age, HeldBy
  <2> QED BY <1>1, <2>2, <2>3, <2>4, <2>5, <2>6 DEF News!Next
<1>2. News!TypeOK /\ [News!Next]_(News!vars) =>
        [~(mode[Tracked] # "off") => \A b \in Board : age'[b] # News!NoNews =>
           \E c \in Board : age[c] # News!NoNews /\ age[c] <= age'[b]]_(News!vars)
  <2> HIDE DEF age
  <2> QED BY <1>1
<1> QED BY <1>2, NewsTyped, PTL DEF News!Spec, News!NeverYounger, age

\* No immortal rumours on the farm itself: whatever boards repeat to each
\* other, however they are reset, sleep and forget, the news of a board that is
\* off never gets younger than the youngest there was (relayed records are one
\* round older for the hearer, mergeAssociation()).
THEOREM SilentOriginsFade ==
  ASSUME Crashable = {}, IsFiniteSet(Board), Cardinality(Board) <= Slots, Tracked \in Board
  PROVE  Spec => News!NeverYounger
<1>1. Spec => News!Spec
  BY GossipImplementsRumours DEF AgesLikeRumours
<1> QED BY <1>1, NewsNeverYounger
=============================================================================
