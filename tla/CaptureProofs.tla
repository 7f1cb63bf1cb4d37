---------------------------- MODULE CaptureProofs ----------------------------
(***************************************************************************)
(* Proofs about Capture, for any number of exchanges and of faults: what   *)
(* the readers put together from a log with lost, joined and interrupted   *)
(* lines, and what of a decision trace passes.                             *)
(***************************************************************************)
EXTENDS Capture, TLAPS, FiniteSetTheorems, SequenceTheorems

-----------------------------------------------------------------------------
(* The inductive invariant.                                                 *)

Number == 1 .. Exchanges
Open == [begin : Number, identity : 0 .. Exchanges, home : 0 .. Exchanges, session : Nat]
Closed == [begin : Number, identity : 0 .. Exchanges, home : 0 .. Exchanges, session : Nat,
           end : Number, endSession : Nat]
Readers == [session : Nat, identity : 0 .. Exchanges,
            current : Open \cup {Nothing}, last : Closed \cup {Nothing}]

\* The line that the board printed last, unless it restarted since.
Before ==
  IF at.p > 1 THEN Lines(at.x)[at.p - 1] ELSE Lines(at.x - 1)[Len(Lines(at.x - 1))]

BoardInv ==
  /\ program \in {"exchanges", "trace"}
  /\ at \in [x : 1 .. Exchanges + 1, p : 1 .. 8]
  /\ at.p <= Len(Lines(at.x)) /\ (at.x > Exchanges => at.p = 1)
  /\ held # <<>> => held = <<Before>> /\ at # [x |-> 1, p |-> 1] /\ joined
  /\ session \in Nat /\ session >= 1

TypeInv ==
  /\ whole \in Readers /\ cycles \in Readers
  /\ tail \in Readers \cup {Nothing}
  /\ program = "trace" => whole = Reader(1) /\ cycles = Reader(1) /\ tail = Nothing

\* Lines that no reader has seen.
Unheard(l) == l \in lost \/ held = <<l>>

SessionInv ==
  /\ program = "exchanges" => whole.session = session
  /\ \A r \in {whole, cycles} : r.current # Nothing => r.current.session = session

\* Since the open exchange began nothing was heard of the identity of another,
\* nor of the beginning of the one whose records come now.
OpenInv ==
  LET c == whole.current
  IN  c # Nothing =>
        /\ c.begin <= at.x /\ (c.begin = at.x => at.p > 2)
        /\ \A x \in c.begin + 1 .. at.x :
             x < at.x \/ at.p > 1 => Unheard(Line("identity", x))
        /\ c.begin < at.x /\ at.p > 2 => Unheard(Line("begin", at.x))
        /\ c.home # None => c.home \in c.begin .. at.x
        /\ c.identity \notin {None, c.begin} => Line("identity", c.begin) \in lost

IdentityInv ==
  whole.identity # None /\ at.p > 1 =>
    whole.identity = at.x \/ Unheard(Line("identity", at.x))

SameOpen(c, d) == c.begin = d.begin /\ (c # Nothing => c.home = d.home)

\* After a beginning that has been heard both readers are in the same exchange.
AgreeInv ==
  ~joined /\ (\A x \in 1 .. Exchanges : Line("begin", x) \notin lost) =>
    /\ Outline(whole.last) = Outline(cycles.last)
    /\ at.p > 2 => SameOpen(whole.current, cycles.current)

\* The same exchange, perhaps without its identity.
Misses(e, d) == Outline(e) = Outline(d) /\ (e # Nothing => e.identity \in {None, d.identity})
MissesOpen(c, d) == SameOpen(c, d) /\ (c # Nothing => c.identity \in {None, d.identity})

TailInv ==
  tail # Nothing =>
    /\ tail.session \in {None, session}
    /\ tail.session = None => tail = Reader(None)
    /\ tail.identity \in {None, whole.identity}
    /\ tail.current # Nothing \/ tail.last # Nothing => MissesOpen(tail.current, whole.current)
    /\ tail.last # Nothing => Misses(tail.last, whole.last)

TraceInv ==
  /\ program = "exchanges" => trace = {}
  /\ \A l \in trace : \E x \in Number, i \in 1 .. 8 : l = TraceLines(x)[i]

ExchangeInv ==
  /\ SessionInv /\ NeverAcrossSessions
  /\ OpenInv /\ IdentityInv /\ MixedOnlyIfUnheard
  /\ AgreeInv /\ TailInv

\* What the steps of the exchanges' readers preserve, and all of it.
Inv == BoardInv /\ TypeInv /\ ExchangeInv
IInv == Inv /\ TraceInv

-----------------------------------------------------------------------------
(* What the readers make of a record *)

USE BoundsAssumption DEF BoundsAssumption

\* What is searched for in one line, ...
LEMMA OneLine ==
  ASSUME NEW l
  PROVE  /\ \A kind : Has(<<l>>, kind) <=> l.k = kind
         /\ Found(<<l>>, l.k) = l
<1>1. \A i : i \in 1 .. Len(<<l>>) <=> i = 1
  OBVIOUS
<1>2. \A kind : Has(<<l>>, kind) <=> l.k = kind
  BY <1>1 DEF Has
<1>3. \A i \in 1 .. Len(<<l>>) : <<l>>[i].k = l.k /\ (\A j \in 1 .. i - 1 : <<l>>[j].k # l.k) <=> i = 1
  OBVIOUS
<1>4. Found(<<l>>, l.k) = l
  BY <1>1, <1>3 DEF Found
<1> QED BY <1>2, <1>4

\* ... and in two that were joined.
LEMMA TwoLines ==
  ASSUME NEW m, NEW l, m.k # l.k
  PROVE  /\ \A kind : Has(<<m, l>>, kind) <=> kind \in {m.k, l.k}
         /\ Found(<<m, l>>, m.k) = m
         /\ Found(<<m, l>>, l.k) = l
<1> DEFINE t == <<m, l>>
<1>1. Len(t) = 2 /\ t[1] = m /\ t[2] = l
  OBVIOUS
<1> HIDE DEF t
<1>2. \A kind : Has(t, kind) <=> kind \in {m.k, l.k}
  BY <1>1 DEF Has
<1>3. \A i \in 1 .. Len(t) : t[i].k = m.k /\ (\A j \in 1 .. i - 1 : t[j].k # m.k) <=> i = 1
  BY <1>1
<1>4. Found(t, m.k) = m
  BY <1>1, <1>3 DEF Found
<1>5. \A i \in 1 .. Len(t) : t[i].k = l.k /\ (\A j \in 1 .. i - 1 : t[j].k # l.k) <=> i = 2
  BY <1>1
<1>6. Found(t, l.k) = l
  BY <1>1, <1>5 DEF Found
<1> QED BY <1>2, <1>4, <1>6 DEF t

\* Nothing is open, or something that began.
LEMMA OpenBegins ==
  /\ \A c \in Open \cup {Nothing} : c = Nothing <=> c.begin = None
  /\ \A c \in Closed \cup {Nothing} : c = Nothing <=> c.begin = None
  /\ \A c \in Open : c # Nothing /\ c.begin # None
  /\ \A c \in Closed : c # Nothing /\ c.begin # None
<1>1. Nothing.begin = None
  BY DEF Nothing
<1>2. ASSUME NEW c \in Open \cup Closed PROVE c.begin # None
  BY DEF Open, Closed, Number, None
<1> QED BY <1>1, <1>2

\* The same of an exchange's records.
LEMMA Record ==
  ASSUME NEW kind, NEW x, NEW text, text = <<Line(kind, x)>>
  PROVE  (\A k : Has(text, k) <=> k = kind) /\ Found(text, kind).x = x
<1> DEFINE l == Line(kind, x)
<1>1. l.k = kind /\ l.x = x
  BY DEF Line
<1> HIDE DEF l
<1>2. (\A k : Has(<<l>>, k) <=> k = kind) /\ Found(<<l>>, kind).x = x
  BY <1>1, OneLine
<1> QED BY <1>2 DEF l

\* In two records that were joined both are found.
LEMMA JoinedRecords ==
  ASSUME NEW j, NEW y, NEW kind, NEW x, j # kind,
         NEW text, text = <<Line(j, y), Line(kind, x)>>
  PROVE  /\ \A k : Has(text, k) <=> k \in {j, kind}
         /\ Found(text, j).x = y
         /\ Found(text, kind).x = x
<1> DEFINE m == Line(j, y)
<1> DEFINE l == Line(kind, x)
<1>1. l.k = kind /\ l.x = x /\ m.k = j /\ m.x = y
  BY DEF Line
<1> HIDE DEF l, m
<1>2. \A k : Has(<<m, l>>, k) <=> k \in {j, kind}
  BY <1>1, TwoLines
<1>3. Found(<<m, l>>, j).x = y /\ Found(<<m, l>>, kind).x = x
  BY <1>1, TwoLines
<1> QED BY <1>2, <1>3 DEF l, m

\* A reader after the session's change, if there was one.
LEMMA SessionRead ==
  ASSUME NEW r \in Readers, NEW q, q = InSession(r)
  PROVE  q \in [session : {session'}, identity : {r.identity, None},
                current : {r.current, Nothing}, last : {r.last}]
<1>1. CASE r.session = session'
  BY <1>1 DEF InSession, Readers
<1>2. CASE r.session # session'
  BY <1>2 DEF InSession, Readers
<1> QED BY <1>1, <1>2

\* One record read, by its kind.  An identity, perhaps at the end of a line that
\* was an exchange's last: ...
LEMMA ReadIdentity ==
  ASSUME NEW r \in Readers, NEW x, NEW text,
         text = <<Line("identity", x)>> \/ \E y : text = <<Line("end", y), Line("identity", x)>>
  PROVE  Evidence(r, text) =
           [session |-> session', identity |-> x, current |-> Nothing, last |-> r.last]
<1>1. /\ Has(text, "identity") /\ Found(text, "identity").x = x
      /\ ~Has(text, "begin") /\ ~Has(text, "home")
  <2>1. CASE text = <<Line("identity", x)>>
    BY <2>1, Record
  <2>2. ASSUME NEW y, text = <<Line("end", y), Line("identity", x)>>
        PROVE  /\ Has(text, "identity") /\ Found(text, "identity").x = x
               /\ ~Has(text, "begin") /\ ~Has(text, "home")
    BY <2>2, JoinedRecords
  <2> QED BY <2>1, <2>2
<1> DEFINE q == InSession(r)
<1>2. q \in [session : {session'}, identity : {r.identity, None},
             current : {r.current, Nothing}, last : {r.last}]
  BY SessionRead
<1> HIDE DEF q
<1>3. OnIdentity(q, text) =
        [session |-> session', identity |-> x, current |-> Nothing, last |-> r.last]
  BY <1>1, <1>2 DEF OnIdentity
<1> QED BY <1>1, <1>3 DEF Evidence, OnBegin, OnHome, OnEnd, q

\* A beginning, perhaps after its identity: ...
Begun(x, i, h, s) == [begin |-> x, identity |-> i, home |-> h, session |-> s]

\* It opens an exchange with the identity that the reader has.
LEMMA ReadBegin ==
  ASSUME NEW r \in Readers, NEW x, NEW text, NEW i,
         \/ text = <<Line("begin", x)>> /\ i = InSession(r).identity
         \/ text = <<Line("identity", x), Line("begin", x)>> /\ i = x
  PROVE  Evidence(r, text) =
           [session |-> session', identity |-> i, current |-> Begun(x, i, None, session'), last |-> r.last]
<1>1. /\ Has(text, "begin") /\ Found(text, "begin").x = x
      /\ ~Has(text, "end") /\ ~Has(text, "home")
      /\ Has(text, "identity") => Found(text, "identity").x = x /\ i = x
      /\ ~Has(text, "identity") => i = InSession(r).identity
  <2>1. CASE text = <<Line("begin", x)>> /\ i = InSession(r).identity
    BY <2>1, Record
  <2>2. CASE text = <<Line("identity", x), Line("begin", x)>> /\ i = x
    BY <2>2, JoinedRecords
  <2> QED BY <2>1, <2>2
<1> DEFINE q == InSession(r)
<1>2. q \in [session : {session'}, identity : {r.identity, None},
             current : {r.current, Nothing}, last : {r.last}]
  BY SessionRead
<1> DEFINE o == OnIdentity(q, text)
<1> HIDE DEF q
<1>3. o = [session |-> session', identity |-> i, current |-> o.current, last |-> r.last]
  BY <1>1, <1>2 DEF OnIdentity, q
<1> HIDE DEF o
<1>4. OnBegin(o, text) =
        [session |-> session', identity |-> i, current |-> Begun(x, i, None, session'), last |-> r.last]
  BY <1>1, <1>3 DEF OnBegin, Begun
<1> QED BY <1>1, <1>4 DEF Evidence, OnHome, OnEnd, q, o

\* ... a home, which needs an exchange that is open, perhaps after that one's
\* beginning; ...
WithHome(c, h) == [begin |-> c.begin, identity |-> c.identity, home |-> h, session |-> c.session]
WithCurrent(r, c) ==
  [session |-> r.session, identity |-> r.identity, current |-> c, last |-> r.last]

\* Alone, a home belongs to what is open.
LEMMA ReadHome ==
  ASSUME NEW r \in Readers, NEW x, NEW q, q = InSession(r),
         NEW text, text = <<Line("home", x)>>
  PROVE  Evidence(r, text) =
           IF q.current = Nothing THEN q ELSE WithCurrent(q, WithHome(q.current, x))
<1>1. /\ Has(text, "home") /\ Found(text, "home").x = x
      /\ ~Has(text, "end") /\ ~Has(text, "begin") /\ ~Has(text, "identity")
  BY Record
<1>2. q \in [session : {session'}, identity : {r.identity, None},
             current : {r.current, Nothing}, last : {r.last}]
  BY SessionRead
<1>3. q.current # Nothing => q.current \in Open
  BY <1>2 DEF Readers
<1>4. q.current # Nothing => OnHome(q, text) = WithCurrent(q, WithHome(q.current, x))
  BY <1>1, <1>2, <1>3 DEF OnHome, WithCurrent, WithHome, Open
<1> QED BY <1>1, <1>4 DEF Evidence, OnIdentity, OnBegin, OnHome, OnEnd

\* What began is open.
LEMMA BegunIsSomething == \A x, i, h, s : x # None => Begun(x, i, h, s) # Nothing
  BY DEF Begun, Nothing

\* After the beginning it belongs to the exchange that began.
LEMMA ReadBeginHome ==
  ASSUME NEW r \in Readers, NEW x \in Number, NEW q, q = InSession(r),
         NEW text, text = <<Line("begin", x), Line("home", x)>>
  PROVE  Evidence(r, text) = WithCurrent(q, Begun(x, q.identity, x, session'))
<1>1. /\ Has(text, "home") /\ Found(text, "home").x = x
      /\ Has(text, "begin") /\ Found(text, "begin").x = x
      /\ ~Has(text, "end") /\ ~Has(text, "identity")
  BY JoinedRecords
<1>2. q \in [session : {session'}, identity : {r.identity, None},
             current : {r.current, Nothing}, last : {r.last}]
  BY SessionRead
<1> DEFINE o == OnBegin(q, text)
<1>3. o = WithCurrent(q, Begun(x, q.identity, None, session'))
  BY <1>1, <1>2 DEF OnBegin, WithCurrent, Begun
<1>4. o.current # Nothing
  BY <1>3, BegunIsSomething DEF WithCurrent, Number, None
<1> HIDE DEF o
<1>5. OnHome(o, text) = WithCurrent(q, Begun(x, q.identity, x, session'))
  BY <1>1, <1>3, <1>4 DEF OnHome, WithCurrent, Begun
<1> QED BY <1>1, <1>5 DEF Evidence, OnIdentity, OnEnd, o

\* ... an end, perhaps after the home: ...
EndedAt(c, h, x, s) ==
  [begin |-> c.begin, identity |-> c.identity, home |-> h, session |-> c.session,
   end |-> x, endSession |-> s]
WithLast(r, e) ==
  [session |-> r.session, identity |-> r.identity, current |-> Nothing, last |-> e]

\* An end completes what is open, with the home before it if there is one.
LEMMA ReadEnd ==
  ASSUME NEW r \in Readers, NEW x, NEW h, NEW q, q = InSession(r), NEW text,
         \/ text = <<Line("end", x)>> /\ h = q.current.home
         \/ text = <<Line("home", x), Line("end", x)>> /\ h = x
  PROVE  Evidence(r, text) =
           IF q.current = Nothing THEN q
           ELSE WithLast(q, EndedAt(q.current, h, x, session'))
<1>1. /\ Has(text, "end") /\ Found(text, "end").x = x
      /\ ~Has(text, "begin") /\ ~Has(text, "identity")
      /\ Has(text, "home") => Found(text, "home").x = x /\ h = x
      /\ ~Has(text, "home") => h = q.current.home
  <2>1. CASE text = <<Line("end", x)>> /\ h = q.current.home
    <3>1. (\A k : Has(text, k) <=> k = "end") /\ Found(text, "end").x = x
      BY <2>1, Record
    <3> QED BY <2>1, <3>1
  <2>2. CASE text = <<Line("home", x), Line("end", x)>> /\ h = x
    BY <2>2, JoinedRecords
  <2> QED BY <2>1, <2>2
<1>2. q \in [session : {session'}, identity : {r.identity, None},
             current : {r.current, Nothing}, last : {r.last}]
  BY SessionRead
<1>3. ASSUME q.current # Nothing
      PROVE  OnEnd(OnHome(q, text), text) = WithLast(q, EndedAt(q.current, h, x, session'))
  <2> DEFINE o == OnHome(q, text)
  <2>1. q.current \in Open
    BY <1>2, <1>3 DEF Readers
  <2>2. o = WithCurrent(q, WithHome(q.current, h))
    BY <1>1, <1>2, <1>3, <2>1 DEF OnHome, WithCurrent, WithHome, Open
  <2>3. o.current # Nothing
    BY <2>1, <2>2, OpenBegins DEF WithCurrent, WithHome, Nothing
  <2> HIDE DEF o
  <2>4. OnEnd(o, text) = WithLast(q, EndedAt(q.current, h, x, session'))
    BY <1>1, <2>2, <2>3 DEF OnEnd, Completed, WithCurrent, WithHome, WithLast, EndedAt
  <2> QED BY <2>4 DEF o
<1>4. Evidence(r, text) = OnEnd(OnHome(q, text), text)
  BY <1>1 DEF Evidence, OnIdentity, OnBegin
<1> QED BY <1>3, <1>4 DEF OnHome, OnEnd

\* ... and the line of a new session.
LEMMA ReadSession == ASSUME NEW r PROVE Evidence(r, <<>>) = InSession(r)
  BY DEF Evidence, OnIdentity, OnBegin, OnHome, OnEnd, Has

\* The dashboard's reader knows of no identities, and takes from joined records
\* the beginning or the end alone.
LEMMA CyclesIdentity ==
  ASSUME NEW c \in Readers, NEW x, NEW text, NEW y,
         text \in {<<Line("identity", x)>>, <<Line("end", y), Line("identity", x)>>}
  PROVE  Cycles(c, text) =
           IF Len(text) = 1 \/ c.current = Nothing THEN c
           ELSE WithLast(c, EndedAt(c.current, c.current.home, y, session'))
<1>1. CASE text = <<Line("identity", x)>>
  <2>1. (\A k : Has(text, k) <=> k = "identity") /\ text # <<>> /\ Len(text) = 1
    BY <1>1, Record
  <2> QED BY <2>1 DEF Cycles, OnHome
<1>2. CASE text = <<Line("end", y), Line("identity", x)>>
  <2>1. /\ \A k : Has(text, k) <=> k \in {"end", "identity"}
        /\ Found(text, "end").x = y
    BY <1>2, JoinedRecords
  <2>2. text # <<>> /\ Len(text) = 2
    BY <1>2
  <2>3. CASE c.current = Nothing
    BY <2>1, <2>2, <2>3 DEF Cycles, OnHome
  <2>4. CASE c.current # Nothing
    <3>1. Cycles(c, text) = OnEnd(c, text)
      BY <2>1, <2>2, <2>4 DEF Cycles
    <3>2. OnEnd(c, text) = WithLast(c, EndedAt(c.current, c.current.home, y, session'))
      BY <2>1, <2>4 DEF OnEnd, Completed, WithLast, EndedAt, Readers
    <3> QED BY <2>2, <2>4, <3>1, <3>2
  <2> QED BY <2>3, <2>4
<1> QED BY <1>1, <1>2

\* parse() starts anew at a beginning, whatever else is in the record, ...
LEMMA CyclesBegin ==
  ASSUME NEW c \in Readers, NEW x, NEW text,
         text \in {<<Line("begin", x)>>, <<Line("identity", x), Line("begin", x)>>,
                   <<Line("begin", x), Line("home", x)>>}
  PROVE  Cycles(c, text) = WithCurrent(c, Begun(x, c.identity, None, session'))
<1>1. Has(text, "begin") /\ Found(text, "begin").x = x /\ text # <<>>
  <2>1. CASE text = <<Line("begin", x)>>
    BY <2>1, Record
  <2>2. CASE text = <<Line("identity", x), Line("begin", x)>>
    BY <2>2, JoinedRecords
  <2>3. CASE text = <<Line("begin", x), Line("home", x)>>
    BY <2>3, JoinedRecords
  <2> QED BY <2>1, <2>2, <2>3
<1> QED BY <1>1 DEF Cycles, Start, OnBegin, WithCurrent, Begun, Readers

\* ... takes a home into what is open, ...
LEMMA CyclesHome ==
  ASSUME NEW c \in Readers, NEW x, NEW text, text = <<Line("home", x)>>
  PROVE  Cycles(c, text) =
           IF c.current = Nothing THEN c ELSE WithCurrent(c, WithHome(c.current, x))
<1>1. (\A k : Has(text, k) <=> k = "home") /\ Found(text, "home").x = x /\ text # <<>>
  BY Record
<1>2. Cycles(c, text) = OnHome(c, text)
  BY <1>1 DEF Cycles
<1>3. c.current # Nothing => c.current \in Open
  BY DEF Readers
<1> QED BY <1>1, <1>2, <1>3 DEF OnHome, WithCurrent, WithHome, Open, Readers

\* ... completes it at an end, without the home that is joined to it, ...
LEMMA CyclesEnd ==
  ASSUME NEW c \in Readers, NEW x, NEW text,
         text \in {<<Line("end", x)>>, <<Line("home", x), Line("end", x)>>}
  PROVE  Cycles(c, text) =
           IF c.current = Nothing THEN c
           ELSE WithLast(c, EndedAt(c.current, c.current.home, x, session'))
<1>1. Has(text, "end") /\ Found(text, "end").x = x /\ ~Has(text, "begin") /\ text # <<>>
  <2>1. CASE text = <<Line("end", x)>>
    BY <2>1, Record
  <2>2. CASE text = <<Line("home", x), Line("end", x)>>
    BY <2>2, JoinedRecords
  <2> QED BY <2>1, <2>2
<1>2. c.current # Nothing => Cycles(c, text) = OnEnd(c, text)
  BY <1>1 DEF Cycles
<1>3. c.current = Nothing => Cycles(c, text) = OnHome(c, text)
  BY <1>1 DEF Cycles
<1>4. c.current # Nothing =>
        OnEnd(c, text) = WithLast(c, EndedAt(c.current, c.current.home, x, session'))
  BY <1>1 DEF OnEnd, Completed, WithLast, EndedAt, Readers
<1> QED BY <1>2, <1>3, <1>4 DEF OnHome

\* ... and starts anew in a new session.
LEMMA CyclesSession ==
  ASSUME NEW c \in Readers
  PROVE  Cycles(c, <<>>) =
           [session |-> session', identity |-> c.identity, current |-> Nothing, last |-> c.last]
<1>1. \A k : ~Has(<<>>, k)
  BY DEF Has
<1> QED BY <1>1 DEF Cycles, Anew, OnHome, Readers

-----------------------------------------------------------------------------
(* What the board prints *)

\* The next line alone, or after the one whose end did not arrive; the board goes on.
Prints4(kind, before, last) ==
  /\ at' = IF kind = "end" THEN [x |-> at.x + 1, p |-> 1] ELSE [x |-> at.x, p |-> at.p + 1]
  /\ \/ held = <<>> /\ Printed = <<Line(kind, at.x)>>
     \/ joined /\ held = <<Line(before, last)>> /\ Printed = <<Line(before, last), Line(kind, at.x)>>

\* Two lines make a text of two.
LEMMA AppendToOne == ASSUME NEW l, NEW m PROVE Append(<<l>>, m) = <<l, m>>
<1> DEFINE t == Append(<<l>>, m)
<1> DEFINE u == <<l, m>>
<1>1. /\ <<l>> \in Seq({l, m}) /\ Len(<<l>>) = 1 /\ <<l>>[1] = l
      /\ u \in Seq({l, m}) /\ Len(u) = 2 /\ u[1] = l /\ u[2] = m
  OBVIOUS
<1>2. t \in Seq({l, m}) /\ Len(t) = 2 /\ t[1] = l /\ t[2] = m
  BY <1>1, AppendProperties
<1> HIDE DEF t, u
<1>3. \A i \in 1 .. Len(t) : t[i] = u[i]
  BY <1>1, <1>2
<1>4. t = u
  BY <1>1, <1>2, <1>3, SeqEqual
<1> QED BY <1>4 DEF t, u

\* What is printed of an exchange, at each of its four lines.
LEMMA Printing ==
  ASSUME BoardInv, program = "exchanges", Prints
  PROVE  /\ at.x \in Number
         /\ \/ at.p = 1 /\ Prints4("identity", "end", at.x - 1)
            \/ at.p = 2 /\ Prints4("begin", "identity", at.x)
            \/ at.p = 3 /\ Prints4("home", "begin", at.x)
            \/ at.p = 4 /\ Prints4("end", "home", at.x)
<1>1. \A x : /\ Lines(x) = ExchangeLines(x) /\ Len(Lines(x)) = 4
             /\ Lines(x)[1] = Line("identity", x) /\ Lines(x)[2] = Line("begin", x)
             /\ Lines(x)[3] = Line("home", x) /\ Lines(x)[4] = Line("end", x)
  BY DEF Lines, ExchangeLines
<1>2. at.x \in Number /\ at.p \in 1 .. 4 /\ at = [x |-> at.x, p |-> at.p]
  <2>1. at.x \in Number /\ at.p \in 1 .. 8 /\ at = [x |-> at.x, p |-> at.p]
    BY DEF BoardInv, Prints, Number
  <2>2. at.p <= 4
    BY <1>1 DEF BoardInv
  <2> QED BY <2>1, <2>2
<1>3. at' =
        IF at.p = 4 THEN [x |-> at.x + 1, p |-> 1] ELSE [x |-> at.x, p |-> at.p + 1]
  <2> DEFINE x == at.x
  <2> DEFINE p == at.p
  <2>1. NextLine = IF p < 4 THEN [at EXCEPT !.p = @ + 1] ELSE [x |-> x + 1, p |-> 1]
    BY <1>1 DEF NextLine
  <2> QED BY <1>2, <2>1 DEF Prints
<1>4. held = <<>> \/ (joined /\ held = <<Before>>)
  BY DEF BoardInv
<1>5. held = <<>> => Printed = <<Lines(at.x)[at.p]>>
  BY DEF Printed
<1>6. ASSUME NEW l, held = <<l>> PROVE Printed = <<l, Lines(at.x)[at.p]>>
  <2> DEFINE m == Lines(at.x)[at.p]
  <2>1. Append(<<l>>, m) = <<l, m>>
    BY AppendToOne
  <2> QED BY <1>6, <2>1 DEF Printed, m
<1>7. Before = IF at.p = 1 THEN Line("end", at.x - 1) ELSE Lines(at.x)[at.p - 1]
  BY <1>1, <1>2 DEF Before
<1>8. CASE at.p = 1
  BY <1>1, <1>2, <1>3, <1>4, <1>5, <1>6, <1>7, <1>8 DEF Prints4
<1>9. CASE at.p = 2
  BY <1>1, <1>2, <1>3, <1>4, <1>5, <1>6, <1>7, <1>9 DEF Prints4
<1>10. CASE at.p = 3
  BY <1>1, <1>2, <1>3, <1>4, <1>5, <1>6, <1>7, <1>10 DEF Prints4
<1>11. CASE at.p = 4
  BY <1>1, <1>2, <1>3, <1>4, <1>5, <1>6, <1>7, <1>11 DEF Prints4
<1> QED BY <1>2, <1>8, <1>9, <1>10, <1>11

\* The board goes on in the order in which it prints, ...
LEMMA PrintsBoard ==
  ASSUME BoardInv, Prints
  PROVE  /\ at' \in [x : 1 .. Exchanges + 1, p : 1 .. 8]
         /\ at'.p <= Len(Lines(at'.x)) /\ (at'.x > Exchanges => at'.p = 1)
         /\ at' # [x |-> 1, p |-> 1]
         /\ Lines(at.x)[at.p] = Before'
<1>1. program' = program /\ \A x : Lines(x)' = Lines(x)
  BY DEF Prints, Lines
<1>2. \E n \in {4, 8} : \A x : Len(Lines(x)) = n
  BY DEF BoardInv, Lines, ExchangeLines, TraceLines
<1>3. at = [x |-> at.x, p |-> at.p] /\ at.x \in 1 .. Exchanges /\ at.p \in 1 .. 8
  BY DEF BoardInv, Prints
<1>4. at.p <= Len(Lines(at.x))
  BY DEF BoardInv
<1>5. CASE at.p < Len(Lines(at.x))
  <2>1. at' = [x |-> at.x, p |-> at.p + 1]
    BY <1>3, <1>5 DEF Prints, NextLine
  <2>2. Before' = Lines(at.x)[at.p]
    BY <1>1, <1>3, <2>1 DEF Before, Lines
  <2> QED BY <1>2, <1>3, <1>5, <2>1, <2>2
<1>6. CASE at.p = Len(Lines(at.x))
  <2>1. at' = [x |-> at.x + 1, p |-> 1]
    BY <1>3, <1>6 DEF Prints, NextLine
  <2>2. Before' = Lines(at.x)[Len(Lines(at.x))]
    BY <1>1, <1>3, <2>1 DEF Before, Lines
  <2> QED BY <1>2, <1>3, <1>6, <2>1, <2>2
<1> QED BY <1>2, <1>3, <1>4, <1>5, <1>6

\* ... and only the line that it printed last can wait for its end.
LEMMA BoardStep == ASSUME BoardInv, [Next]_vars PROVE BoardInv'
<1> USE DEF BoardInv
<1>0. program' = program
  BY DEF Next, Arrive, Lose, Join, Restart, Reconnect, TailBegins, Done, Prints, vars
<1>1. CASE Arrive \/ Lose
  <2>1. Prints /\ held' = <<>>
    BY <1>1 DEF Arrive, Lose
  <2>2. session' = session
    BY <2>1 DEF Prints
  <2>3. \A x : Lines(x)' = Lines(x)
    BY <1>0 DEF Lines
  <2>4. Len(Lines(at.x))' = Len(Lines(at'.x))
    BY <1>0 DEF Lines
  <2> QED BY <1>0, <2>1, <2>2, <2>4, PrintsBoard
<1>2. CASE Join
  <2>1. Prints /\ held = <<>> /\ held' = <<Lines(at.x)[at.p]>> /\ joined' = TRUE
    BY <1>2 DEF Join, Printed
  <2>2. session' = session
    BY <2>1 DEF Prints
  <2>4. Len(Lines(at.x))' = Len(Lines(at'.x))
    BY <1>0 DEF Lines
  <2> QED BY <1>0, <2>1, <2>2, <2>4, PrintsBoard
<1>3. CASE Restart
  <2>1. at' = [x |-> at.x + 1, p |-> 1] /\ held' = <<>> /\ session' = session /\ at.x <= Exchanges
    BY <1>3 DEF Restart
  <2>2. at' \in [x : 1 .. Exchanges + 1, p : 1 .. 8] /\ at'.p = 1
    BY <2>1
  <2>3. Len(Lines(at.x))' = Len(Lines(at'.x))
    BY <1>0 DEF Lines
  <2> DEFINE n == Len(Lines(at'.x))
  <2>4. n = 4 \/ n = 8
    BY DEF Lines, ExchangeLines, TraceLines
  <2> HIDE DEF n
  <2>5. 1 <= n
    BY <2>4
  <2>6. at'.p <= Len(Lines(at'.x))
    BY <2>2, <2>5 DEF n
  <2> QED BY <1>0, <2>1, <2>2, <2>3, <2>6
<1>4. CASE Reconnect
  <2>1. at' = at /\ held' = <<>> /\ session' = session + 1
    BY <1>4 DEF Reconnect
  <2>2. Len(Lines(at.x))' = Len(Lines(at.x))
    BY <1>0, <2>1 DEF Lines
  <2> QED BY <1>0, <2>1, <2>2
<1>5. CASE TailBegins \/ Done \/ UNCHANGED vars
  <2>1. UNCHANGED <<program, at, held, session, joined>>
    BY <1>5 DEF TailBegins, Done, vars
  <2>2. Len(Lines(at.x))' = Len(Lines(at.x)) /\ Before' = Before
    BY <2>1 DEF Lines, Before
  <2> QED BY <2>1, <2>2
<1> QED BY <1>1, <1>2, <1>3, <1>4, <1>5 DEF Next

-----------------------------------------------------------------------------
(* An exchange's records arrive *)

\* The readers go on in the session in which they are; a tail joins it.
LEMMA Arrives ==
  ASSUME Inv, Arrive, program = "exchanges"
  PROVE  /\ UNCHANGED <<program, session, lost, joined>> /\ held' = <<>>
         /\ whole \in Readers /\ whole' = Evidence(whole, Printed) /\ InSession(whole) = whole
         /\ cycles \in Readers /\ cycles' = Cycles(cycles, Printed)
         /\ tail = Nothing => tail' = Nothing
         /\ tail # Nothing =>
              /\ tail \in Readers /\ tail' = Evidence(tail, Printed)
              /\ InSession(tail) = [session |-> session, identity |-> tail.identity,
                                    current |-> tail.current, last |-> tail.last]
<1> USE DEF Inv, TypeInv, ExchangeInv
<1>1. UNCHANGED <<program, session, lost, joined>> /\ held' = <<>>
  BY DEF Arrive, Prints
<1>2. /\ whole' = Evidence(whole, Printed) /\ cycles' = Cycles(cycles, Printed)
      /\ tail' = IF tail = Nothing THEN tail ELSE Evidence(tail, Printed)
  BY DEF Arrive, Emit
<1>3. InSession(whole) = whole
  BY <1>1 DEF InSession, SessionInv
<1>4. ASSUME tail # Nothing
      PROVE  InSession(tail) = [session |-> session, identity |-> tail.identity,
                                current |-> tail.current, last |-> tail.last]
  <2>1. tail \in Readers
    BY <1>4
  <2>2. CASE tail.session = session
    BY <1>1, <2>1, <2>2 DEF InSession, Readers
  <2>3. CASE tail.session # session
    <3>1. tail = Reader(None)
      BY <1>4, <2>3 DEF TailInv
    <3> QED BY <1>1, <2>3, <3>1 DEF InSession, Reader
  <2> QED BY <2>2, <2>3
<1> QED BY <1>1, <1>2, <1>3, <1>4

\* What has ended is one of the completed exchanges.
LEMMA ClosedType ==
  ASSUME NEW c \in Open, NEW h \in 0 .. Exchanges, NEW x \in Number, NEW s \in Nat
  PROVE  EndedAt(c, h, x, s) \in Closed /\ EndedAt(c, h, x, s) # Nothing
<1>1. EndedAt(c, h, x, s) \in Closed
  BY DEF EndedAt, Open, Closed
<1> QED BY <1>1, OpenBegins

\* An identity, perhaps joined to the end before it, closes what is open: in
\* parse_evidence(), and in parse() if it was joined.
LEMMA ArriveIdentity ==
  ASSUME Inv, Arrive, program = "exchanges", at.p = 1, at.x \in Number,
         Prints4("identity", "end", at.x - 1)
  PROVE  TypeInv' /\ ExchangeInv'
<1> DEFINE x == at.x
<1> USE DEF Inv, TypeInv, ExchangeInv
<1>1. at' = [x |-> x, p |-> 2]
  BY DEF Prints4
<1>2. \/ held = <<>> /\ Printed = <<Line("identity", x)>>
      \/ held # <<>> /\ joined /\ Printed = <<Line("end", x - 1), Line("identity", x)>>
  <2>1. \A l : <<l>> # <<>>
    OBVIOUS
  <2> QED BY <2>1 DEF Prints4
<1>3. whole' = [session |-> session, identity |-> x, current |-> Nothing, last |-> whole.last]
  BY <1>2, Arrives, ReadIdentity
<1>4. tail # Nothing =>
        tail' = [session |-> session, identity |-> x, current |-> Nothing, last |-> tail.last]
  BY <1>2, Arrives, ReadIdentity
<1>5. \/ cycles' = cycles
      \/ joined /\ x - 1 \in Number /\ cycles.current # Nothing
                /\ cycles' = WithLast(cycles, EndedAt(cycles.current, cycles.current.home, x - 1, session))
  <2>1. CASE held = <<>>
    BY <1>2, <2>1, Arrives, CyclesIdentity
  <2>2. CASE held # <<>>
    <3>1. x - 1 \in Number
      BY <2>2 DEF BoardInv, Number
    <3> QED BY <1>2, <2>2, <3>1, Arrives, CyclesIdentity
  <2> QED BY <2>1, <2>2
<1>6. TypeInv'
  <2>1. whole' \in Readers /\ (tail' \in Readers \cup {Nothing})
    BY <1>3, <1>4, Arrives DEF Readers, BoardInv, Number
  <2>2. ASSUME x - 1 \in Number, cycles.current # Nothing,
               cycles' = WithLast(cycles, EndedAt(cycles.current, cycles.current.home, x - 1, session))
        PROVE  cycles' \in Readers
    <3>1. cycles.current \in Open /\ cycles.current.home \in 0 .. Exchanges
      BY <2>2, Arrives DEF Readers, Open
    <3> QED BY <2>2, <3>1, ClosedType, Arrives DEF WithLast, Readers, BoardInv
  <2> QED BY <1>5, <2>1, <2>2, Arrives
<1>7. SessionInv' /\ NeverAcrossSessions'
  BY <1>3, <1>5, Arrives DEF SessionInv, NeverAcrossSessions, WithLast, EndedAt
<1>8. OpenInv'
  BY <1>3 DEF OpenInv
<1>9. IdentityInv'
  BY <1>1, <1>3 DEF IdentityInv
<1>10. MixedOnlyIfUnheard'
  BY <1>3, Arrives DEF MixedOnlyIfUnheard
<1>11. AgreeInv'
  BY <1>1, <1>3, <1>5, Arrives DEF AgreeInv
<1>12. TailInv'
  BY <1>3, <1>4, Arrives DEF TailInv, MissesOpen, SameOpen, BoardInv, None
<1> QED BY <1>6, <1>7, <1>8, <1>9, <1>10, <1>11, <1>12

\* At a beginning both readers open the same exchange; its identity is its own
\* or that was not heard.
LEMMA ArriveBegin ==
  ASSUME Inv, Arrive, program = "exchanges", at.p = 2, at.x \in Number,
         Prints4("begin", "identity", at.x)
  PROVE  TypeInv' /\ ExchangeInv'
<1> DEFINE x == at.x
<1> USE DEF Inv, TypeInv, ExchangeInv
<1>1. at' = [x |-> x, p |-> 3]
  BY DEF Prints4
<1> DEFINE i(r) == IF held = <<>> THEN r.identity ELSE x
<1>2. \/ held = <<>> /\ Printed = <<Line("begin", x)>>
      \/ /\ held # <<>> /\ joined /\ held = <<Line("identity", x)>>
         /\ Printed = <<Line("identity", x), Line("begin", x)>>
  <2>1. \A l : <<l>> # <<>>
    OBVIOUS
  <2> QED BY <2>1 DEF Prints4
<1>3. whole' = [session |-> session, identity |-> i(whole),
                current |-> Begun(x, i(whole), None, session), last |-> whole.last]
  BY <1>2, Arrives, ReadBegin
<1>4. tail # Nothing =>
        tail' = [session |-> session, identity |-> i(tail),
                 current |-> Begun(x, i(tail), None, session), last |-> tail.last]
  <2> SUFFICES ASSUME tail # Nothing
               PROVE  tail' = [session |-> session, identity |-> i(tail),
                               current |-> Begun(x, i(tail), None, session), last |-> tail.last]
    OBVIOUS
  <2>1. \/ Printed = <<Line("begin", x)>> /\ i(tail) = InSession(tail).identity
        \/ Printed = <<Line("identity", x), Line("begin", x)>> /\ i(tail) = x
    BY <1>2, Arrives
  <2> HIDE DEF i
  <2>2. tail \in Readers /\ session' = session
    BY Arrives
  <2>3. Evidence(tail, Printed) =
          [session |-> session', identity |-> i(tail),
           current |-> Begun(x, i(tail), None, session'), last |-> tail.last]
    BY <2>1, <2>2, ReadBegin
  <2> QED BY <2>2, <2>3, Arrives
<1>5. cycles' = WithCurrent(cycles, Begun(x, cycles.identity, None, session))
  BY <1>2, Arrives, CyclesBegin
<1>6. i(whole) \in {None, x} \/ Line("identity", x) \in lost
  BY <1>2 DEF IdentityInv, Unheard
<1>7. ASSUME NEW r \in Readers
      PROVE  i(r) \in 0 .. Exchanges /\ Begun(x, i(r), None, session) \in Open
  BY DEF Readers, Number, Open, Begun, None, BoardInv
<1>8. ASSUME NEW r \in Readers PROVE Begun(x, r.identity, None, session) \in Open
  BY DEF Readers, Number, Open, Begun, None, BoardInv
<1> HIDE DEF i
<1>9. TypeInv'
  <2>1. whole' \in Readers /\ (tail' \in Readers \cup {Nothing})
    BY <1>3, <1>4, <1>7, Arrives DEF Readers, BoardInv
  <2>2. cycles' \in Readers
    BY <1>5, <1>8, Arrives DEF WithCurrent, Readers
  <2> QED BY <2>1, <2>2, Arrives
<1>10. SessionInv' /\ NeverAcrossSessions'
  BY <1>3, <1>5, Arrives DEF SessionInv, NeverAcrossSessions, WithCurrent, Begun
<1>11. OpenInv'
  BY <1>1, <1>3, <1>6, Arrives DEF OpenInv, Begun, Number
<1>12. IdentityInv'
  BY <1>1, <1>3, <1>6, Arrives DEF IdentityInv, Unheard
<1>13. MixedOnlyIfUnheard'
  BY <1>3, Arrives DEF MixedOnlyIfUnheard
<1>14. AgreeInv'
  BY <1>1, <1>3, <1>5, Arrives DEF AgreeInv, WithCurrent, SameOpen, Begun
<1>15. TailInv'
  BY <1>3, <1>4, Arrives DEF TailInv, MissesOpen, SameOpen, BoardInv, None, Begun, i
<1> QED BY <1>9, <1>10, <1>11, <1>12, <1>13, <1>14, <1>15

\* A home goes to the exchange that is open, which nothing heard has ended.
LEMMA ArriveHome ==
  ASSUME Inv, Arrive, program = "exchanges", at.p = 3, at.x \in Number,
         Prints4("home", "begin", at.x)
  PROVE  TypeInv' /\ ExchangeInv'
<1> DEFINE x == at.x
<1> USE DEF Inv, TypeInv, ExchangeInv
<1>1. at' = [x |-> x, p |-> 4]
  BY DEF Prints4
<1>2. \/ held = <<>> /\ Printed = <<Line("home", x)>>
      \/ /\ held # <<>> /\ joined /\ held = <<Line("begin", x)>>
         /\ Printed = <<Line("begin", x), Line("home", x)>>
  <2>1. \A l : <<l>> # <<>>
    OBVIOUS
  <2> QED BY <2>1 DEF Prints4
<1> DEFINE
      c(r) == IF held = <<>> THEN WithHome(r.current, x) ELSE Begun(x, r.identity, x, session)
      e(r) == r.current # Nothing \/ held # <<>>
<1>3. ASSUME NEW r \in Readers, NEW q, q = InSession(r), q.session = session,
             q.current = r.current, q.last = r.last, q.identity = r.identity
      PROVE  Evidence(r, Printed) =
               IF e(r) THEN WithCurrent(q, c(r)) ELSE q
  <2>1. CASE held = <<>>
    BY <1>2, <1>3, <2>1, Arrives, ReadHome
  <2>2. CASE held # <<>>
    BY <1>2, <1>3, <2>2, Arrives, ReadBeginHome
  <2> QED BY <2>1, <2>2
<1>4. ASSUME NEW r \in Readers, e(r)
      PROVE  c(r) \in Open
  <2>1. r.current # Nothing => r.current \in Open
    BY DEF Readers
  <2> QED BY <1>4, <2>1 DEF WithHome, Begun, Open, Readers, Number, BoardInv
<1>5. whole' = IF e(whole) THEN WithCurrent(whole, c(whole)) ELSE whole
  <2>1. whole.session = session
    BY DEF SessionInv
  <2> QED BY <1>3, <2>1, Arrives
<1>6. tail # Nothing =>
        tail' = [session |-> session, identity |-> tail.identity,
                 current |-> IF e(tail) THEN c(tail) ELSE Nothing, last |-> tail.last]
  BY <1>3, Arrives DEF WithCurrent
<1>7. IF held = <<>>
      THEN cycles' = IF cycles.current = Nothing THEN cycles
                     ELSE WithCurrent(cycles, WithHome(cycles.current, x))
      ELSE joined /\ cycles' = WithCurrent(cycles, Begun(x, cycles.identity, None, session))
  BY <1>2, Arrives, CyclesHome, CyclesBegin
<1> HIDE DEF c, e
<1>8. TypeInv'
  <2>1. whole' \in Readers
    BY <1>4, <1>5, Arrives DEF WithCurrent, Readers
  <2>2. tail' \in Readers \cup {Nothing}
    BY <1>4, <1>6, Arrives DEF Readers, BoardInv
  <2>3. cycles' \in Readers
    <3>1. CASE held = <<>>
      <4>1. CASE cycles.current # Nothing
        BY <1>4, <1>7, <3>1, <4>1, Arrives DEF WithCurrent, Readers, c, e
      <4> QED BY <1>7, <3>1, <4>1, Arrives
    <3>2. CASE held # <<>>
      <4>1. Begun(x, cycles.identity, None, session) \in Open
        BY Arrives DEF Readers, Number, Open, Begun, None, BoardInv
      <4> QED BY <1>7, <3>2, <4>1, Arrives DEF WithCurrent, Readers
    <3> QED BY <3>1, <3>2
  <2> QED BY <2>1, <2>2, <2>3, Arrives
<1>9. SessionInv' /\ NeverAcrossSessions'
  BY <1>5, <1>7, Arrives
     DEF SessionInv, NeverAcrossSessions, WithCurrent, Begun, WithHome, c, e
<1>10. OpenInv'
  <2>1. CASE held = <<>>
    BY <1>1, <1>5, <2>1, Arrives DEF OpenInv, WithHome, WithCurrent, Number, Unheard, c, e
  <2>2. CASE held # <<>>
    BY <1>1, <1>2, <1>5, <2>2, Arrives
       DEF OpenInv, IdentityInv, Begun, WithCurrent, Number, Unheard, Line, c, e
  <2> QED BY <2>1, <2>2
<1>11. IdentityInv'
  BY <1>1, <1>2, <1>5, Arrives DEF IdentityInv, Unheard, WithCurrent, Line
<1>12. MixedOnlyIfUnheard'
  BY <1>5, Arrives DEF MixedOnlyIfUnheard, WithCurrent
<1>13. AgreeInv'
  <2> SUFFICES ASSUME ~joined', \A y \in 1 .. Exchanges : Line("begin", y) \notin lost'
               PROVE  /\ Outline(whole'.last) = Outline(cycles'.last)
                      /\ at'.p > 2 => SameOpen(whole'.current, cycles'.current)
    BY DEF AgreeInv
  <2>1. /\ held = <<>> /\ Outline(whole.last) = Outline(cycles.last)
        /\ SameOpen(whole.current, cycles.current)
    BY <1>2, Arrives DEF AgreeInv
  <2>2. whole'.last = whole.last /\ cycles'.last = cycles.last
    BY <1>5, <1>7, <2>1 DEF WithCurrent
  <2>3. whole.current = Nothing <=> cycles.current = Nothing
    BY <2>1, OpenBegins, Arrives DEF SameOpen, Readers
  <2>4. SameOpen(whole'.current, cycles'.current)
    BY <1>5, <1>7, <2>1, <2>3 DEF SameOpen, WithCurrent, WithHome, c, e
  <2> QED BY <2>1, <2>2, <2>4
<1>14. TailInv'
  <2> SUFFICES ASSUME tail # Nothing
               PROVE  TailInv'
    BY Arrives DEF TailInv
  <2>1. tail'.session = session /\ session # None /\ tail'.last = tail.last
        /\ tail'.identity = tail.identity
    BY <1>6 DEF BoardInv, None
  <2>2. whole'.last = whole.last /\ whole'.identity = whole.identity
    BY <1>5 DEF WithCurrent
  <2>3. ASSUME tail'.current # Nothing \/ tail'.last # Nothing
        PROVE  MissesOpen(tail'.current, whole'.current)
    <3>1. CASE held = <<>>
      <4>1. MissesOpen(tail.current, whole.current)
        BY <1>6, <2>1, <2>3, <3>1 DEF TailInv, e
      <4>2. tail.current = Nothing <=> whole.current = Nothing
        BY <4>1, OpenBegins, Arrives DEF MissesOpen, SameOpen, Readers
      <4> QED BY <1>5, <1>6, <3>1, <4>1, <4>2
              DEF MissesOpen, SameOpen, WithHome, WithCurrent, c, e
    <3>2. CASE held # <<>>
      BY <1>5, <1>6, <3>2 DEF TailInv, MissesOpen, SameOpen, Begun, WithCurrent, c, e
    <3> QED BY <3>1, <3>2
  <2> QED BY <2>1, <2>2, <2>3, Arrives DEF TailInv
<1> QED BY <1>8, <1>9, <1>10, <1>11, <1>12, <1>13, <1>14

\* At its end an exchange is as MixedOnlyIfUnheard says, and both readers
\* return it.
LEMMA ArriveEnd ==
  ASSUME Inv, Arrive, program = "exchanges", at.p = 4, at.x \in Number,
         Prints4("end", "home", at.x)
  PROVE  TypeInv' /\ ExchangeInv'
<1> DEFINE x == at.x
<1> USE DEF Inv, TypeInv, ExchangeInv
<1>1. at' = [x |-> x + 1, p |-> 1]
  BY DEF Prints4
<1>2. \/ held = <<>> /\ Printed = <<Line("end", x)>>
      \/ /\ held # <<>> /\ joined /\ held = <<Line("home", x)>>
         /\ Printed = <<Line("home", x), Line("end", x)>>
  <2>1. \A l : <<l>> # <<>>
    OBVIOUS
  <2> QED BY <2>1 DEF Prints4
<1> DEFINE
      h(r) == IF held = <<>> THEN r.current.home ELSE x
      e(r) == EndedAt(r.current, h(r), x, session)
<1>3. ASSUME NEW r \in Readers, NEW q, q = InSession(r), q.session = session,
             q.current = r.current, q.last = r.last, q.identity = r.identity
      PROVE  Evidence(r, Printed) =
               IF r.current = Nothing THEN q ELSE WithLast(q, e(r))
  <2>1. \/ Printed = <<Line("end", x)>> /\ h(r) = q.current.home
        \/ Printed = <<Line("home", x), Line("end", x)>> /\ h(r) = x
    BY <1>2, <1>3
  <2> HIDE DEF h
  <2>2. Evidence(r, Printed) =
          IF q.current = Nothing THEN q ELSE WithLast(q, EndedAt(q.current, h(r), x, session'))
    BY <1>3, <2>1, ReadEnd
  <2> QED BY <1>3, <2>2, Arrives
<1>4. ASSUME NEW r \in Readers, r.current # Nothing
      PROVE  e(r) \in Closed /\ e(r) # Nothing
  <2>1. r.current \in Open /\ h(r) \in 0 .. Exchanges
    BY <1>4 DEF Readers, Open, Number
  <2> QED BY <2>1, ClosedType DEF BoardInv
<1>5. whole' = IF whole.current = Nothing THEN whole ELSE WithLast(whole, e(whole))
  <2>1. whole.session = session
    BY DEF SessionInv
  <2> QED BY <1>3, <2>1, Arrives
<1>6. tail # Nothing =>
        tail' = [session |-> session, identity |-> tail.identity, current |-> Nothing,
                 last |-> IF tail.current = Nothing THEN tail.last ELSE e(tail)]
  BY <1>3, Arrives DEF WithLast
<1>7. cycles' = IF cycles.current = Nothing THEN cycles
                ELSE WithLast(cycles, EndedAt(cycles.current, cycles.current.home, x, session))
  BY <1>2, Arrives, CyclesEnd
<1> HIDE DEF h, e
<1>8. TypeInv'
  <2>1. whole' \in Readers
    BY <1>4, <1>5, Arrives DEF WithLast, Readers
  <2>2. tail' \in Readers \cup {Nothing}
    BY <1>4, <1>6, Arrives DEF Readers, BoardInv
  <2>3. cycles' \in Readers
    <3>1. CASE cycles.current # Nothing
      <4>1. cycles.current \in Open /\ cycles.current.home \in 0 .. Exchanges
        BY <3>1, Arrives DEF Readers, Open
      <4>2. EndedAt(cycles.current, cycles.current.home, x, session) \in Closed
        BY <4>1, ClosedType DEF BoardInv
      <4> QED BY <1>7, <3>1, <4>2, Arrives DEF WithLast, Readers
    <3> QED BY <1>7, <3>1, Arrives
  <2> QED BY <2>1, <2>2, <2>3, Arrives
<1>9. SessionInv' /\ NeverAcrossSessions'
  BY <1>5, <1>7, Arrives
     DEF SessionInv, NeverAcrossSessions, WithLast, EndedAt, e
<1>10. OpenInv'
  BY <1>5 DEF OpenInv, WithLast
<1>11. IdentityInv'
  BY <1>1 DEF IdentityInv
<1>12. MixedOnlyIfUnheard'
  <2>1. CASE whole.current = Nothing
    BY <1>5, <2>1, Arrives DEF MixedOnlyIfUnheard
  <2>2. CASE whole.current # Nothing
    <3>1. \A k \in {"identity", "begin"} : \A y : Unheard(Line(k, y)) => Line(k, y) \in lost
      <4>1. \A l, m : <<l>> = <<m>> => l = m
        OBVIOUS
      <4> QED BY <1>2, <4>1 DEF Unheard, Line
    <3>2. /\ whole.current.begin <= x
          /\ \A y \in whole.current.begin + 1 .. x : Line("identity", y) \in lost
          /\ whole.current.begin < x => Line("begin", x) \in lost
          /\ h(whole) # None => h(whole) \in whole.current.begin .. x
          /\ whole.current.identity \notin {None, whole.current.begin} =>
               Line("identity", whole.current.begin) \in lost
      BY <2>2, <3>1, Arrives DEF OpenInv, h, Readers, Open, Number
    <3>3. /\ (whole.last.begin)' = whole.current.begin /\ (whole.last.end)' = x
          /\ (whole.last.home)' = h(whole) /\ (whole.last.identity)' = whole.current.identity
      BY <1>5, <2>2 DEF WithLast, EndedAt, e
    <3>4. lost' = lost
      BY Arrives
    <3> HIDE DEF Inv
    <3>5. ASSUME NEW y \in (whole.last.begin)' + 1 .. (whole.last.end)'
          PROVE  /\ Line("identity", y) \in lost'
                 /\ y = (whole.last.end)' => Line("begin", y) \in lost'
      <4>1. whole.current \in Open /\ x \in Nat
        BY <2>2, Arrives DEF Readers, Number, Inv
      <4>2. y > whole.current.begin /\ y \in whole.current.begin + 1 .. x
        BY <3>3, <3>5, <4>1 DEF Open, Number
      <4> HIDE DEF x
      <4> QED BY <3>2, <3>3, <3>4, <4>2
    <3>6. /\ (whole.last.home)' # None =>
               (whole.last.home)' \in (whole.last.begin)' .. (whole.last.end)'
          /\ (whole.last.identity)' \notin {None, (whole.last.begin)'} =>
               Line("identity", (whole.last.begin)') \in lost'
      BY <3>2, <3>3, <3>4
    <3> HIDE DEF x
    <3> QED BY <3>5, <3>6 DEF MixedOnlyIfUnheard
  <2> QED BY <2>1, <2>2
<1>13. AgreeInv'
  <2> SUFFICES ASSUME ~joined', \A y \in 1 .. Exchanges : Line("begin", y) \notin lost'
               PROVE  Outline(whole'.last) = Outline(cycles'.last)
    BY <1>1 DEF AgreeInv
  <2>1. /\ held = <<>> /\ Outline(whole.last) = Outline(cycles.last)
        /\ SameOpen(whole.current, cycles.current)
    BY <1>2, Arrives DEF AgreeInv
  <2>2. whole.current = Nothing <=> cycles.current = Nothing
    BY <2>1, OpenBegins, Arrives DEF SameOpen, Readers
  <2>3. CASE whole.current = Nothing
    BY <1>5, <1>7, <2>1, <2>2, <2>3
  <2>4. CASE whole.current # Nothing
    <3>1. e(whole) # Nothing /\ e(cycles) # Nothing
      BY <1>4, <2>2, <2>4, Arrives
    <3>2. whole'.last = e(whole) /\ cycles'.last = e(cycles)
      BY <1>5, <1>7, <2>1, <2>2, <2>4 DEF WithLast, e, h
    <3> QED BY <2>1, <2>4, <3>1, <3>2 DEF Outline, SameOpen, EndedAt, e, h
  <2> QED BY <2>3, <2>4
<1>14. TailInv'
  <2> SUFFICES ASSUME tail # Nothing
               PROVE  TailInv'
    BY Arrives DEF TailInv
  <2>1. tail'.session = session /\ session # None /\ tail'.current = Nothing
        /\ tail'.identity = tail.identity
    BY <1>6 DEF BoardInv, None
  <2>2. whole'.identity = whole.identity /\ whole'.current = Nothing
    BY <1>5 DEF WithLast
  <2>3. MissesOpen(Nothing, Nothing)
    BY DEF MissesOpen, SameOpen
  <2>4. ASSUME tail'.last # Nothing
        PROVE  Misses(tail'.last, whole'.last)
    <3>1. MissesOpen(tail.current, whole.current)
      BY <1>6, <2>4 DEF TailInv
    <3>2. tail.current = Nothing <=> whole.current = Nothing
      BY <3>1, OpenBegins, Arrives DEF MissesOpen, SameOpen, Readers
    <3>3. CASE tail.current = Nothing
      BY <1>5, <1>6, <2>4, <3>2, <3>3 DEF TailInv
    <3>4. CASE tail.current # Nothing
      <4>1. e(tail) # Nothing /\ e(whole) # Nothing
        BY <1>4, <3>2, <3>4, Arrives
      <4>2. tail'.last = e(tail) /\ whole'.last = e(whole)
        BY <1>5, <1>6, <3>2, <3>4 DEF WithLast
      <4> QED BY <3>1, <3>4, <4>1, <4>2
              DEF Misses, MissesOpen, Outline, SameOpen, EndedAt, e, h
    <3> QED BY <3>3, <3>4
  <2> QED BY <2>1, <2>2, <2>3, <2>4, Arrives DEF TailInv
<1> QED BY <1>8, <1>9, <1>10, <1>11, <1>12, <1>13, <1>14

-----------------------------------------------------------------------------
(* Lines are lost or joined, the board restarts, the logger reconnects *)

\* What was not heard is not heard later, ...
LEMMA StaysUnheard ==
  ASSUME Inv, program = "exchanges", Lose \/ Join \/ Restart
  PROVE  /\ UNCHANGED <<program, session, whole, cycles, tail, trace>>
         /\ lost \subseteq lost'
         /\ joined => joined'
         /\ \A l : l \in lost \/ held = <<l>> => l \in lost' \/ held' = <<l>>
<1> USE DEF Inv, BoardInv
<1>1. CASE Lose
  <2>1. UNCHANGED <<program, session, whole, cycles, tail, trace, joined>>
    BY <1>1 DEF Lose, Prints
  <2>2. lost' = lost \cup {Printed[i] : i \in 1 .. Len(Printed)}
    BY <1>1 DEF Lose
  <2>3. ASSUME NEW l, held = <<l>> PROVE l \in lost'
    <3> DEFINE m == Lines(at.x)[at.p]
    <3> HIDE DEF m
    <3>1. Printed = <<l, m>>
      BY <2>3, AppendToOne DEF Printed, m
    <3>2. Len(<<l, m>>) = 2 /\ <<l, m>>[1] = l
      OBVIOUS
    <3> QED BY <2>2, <3>1, <3>2
  <2> QED BY <2>1, <2>2, <2>3
<1>2. CASE Join
  BY <1>2 DEF Join, Prints
<1>3. CASE Restart
  <2>1. UNCHANGED <<program, session, whole, cycles, tail, trace, joined>>
    BY <1>3 DEF Restart
  <2>2. lost' = lost \cup {held[i] : i \in 1 .. Len(held)}
    BY <1>3 DEF Restart
  <2>3. ASSUME NEW l, held = <<l>> PROVE l \in lost'
    <3>1. Len(<<l>>) = 1 /\ <<l>>[1] = l
      OBVIOUS
    <3> QED BY <2>2, <2>3, <3>1
  <2> QED BY <2>1, <2>2, <2>3
<1> QED BY <1>1, <1>2, <1>3

\* ... and the next line is not.
LEMMA NextUnheard ==
  ASSUME Inv, program = "exchanges", Lose \/ Join
  PROVE  /\ at.x \in Number
         /\ \E kind \in {"identity", "begin", "home", "end"} :
              /\ at.p = 1 <=> kind = "identity"
              /\ at.p = 2 <=> kind = "begin"
              /\ at.p = 4 <=> kind = "end"
              /\ at' = IF kind = "end" THEN [x |-> at.x + 1, p |-> 1]
                       ELSE [x |-> at.x, p |-> at.p + 1]
              /\ Line(kind, at.x) \in lost' \/ held' = <<Line(kind, at.x)>>
              /\ ~joined' => Line(kind, at.x) \in lost'
<1>1. Prints
  BY DEF Lose, Join
<1>2. at.x \in Number
  BY <1>1, Printing DEF Inv
<1>3. ASSUME NEW kind, NEW before, NEW last, Prints4(kind, before, last)
      PROVE  /\ Line(kind, at.x) \in lost' \/ held' = <<Line(kind, at.x)>>
             /\ ~joined' => Line(kind, at.x) \in lost'
  <2> DEFINE l == Line(kind, at.x)
  <2> DEFINE m == Line(before, last)
  <2>1. Printed = <<l>> \/ Printed = <<m, l>>
    BY <1>3 DEF Prints4
  <2>2. held = <<>> => Printed = <<l>>
    <3>1. \A k : <<k>> # <<>>
      OBVIOUS
    <3> QED BY <1>3, <3>1 DEF Prints4
  <2> HIDE DEF l, m
  <2>3. CASE Lose
    <3>1. lost' = lost \cup {Printed[i] : i \in 1 .. Len(Printed)}
      BY <2>3 DEF Lose
    <3>2. Len(<<l>>) = 1 /\ <<l>>[1] = l /\ Len(<<m, l>>) = 2 /\ <<m, l>>[2] = l
      OBVIOUS
    <3>3. l \in lost'
      BY <2>1, <3>1, <3>2
    <3> QED BY <3>3 DEF l
  <2>4. CASE Join
    BY <2>2, <2>4 DEF Join, l
  <2> QED BY <2>3, <2>4
<1>4. CASE at.p = 1 /\ Prints4("identity", "end", at.x - 1)
  BY <1>2, <1>3, <1>4 DEF Prints4
<1>5. CASE at.p = 2 /\ Prints4("begin", "identity", at.x)
  BY <1>2, <1>3, <1>5 DEF Prints4
<1>6. CASE at.p = 3 /\ Prints4("home", "begin", at.x)
  BY <1>2, <1>3, <1>6 DEF Prints4
<1>7. CASE at.p = 4 /\ Prints4("end", "home", at.x)
  BY <1>2, <1>3, <1>7 DEF Prints4
<1> QED BY <1>1, <1>4, <1>5, <1>6, <1>7, Printing DEF Inv

\* So what the readers have open stays as old as it may be.
LEMMA NothingRead ==
  ASSUME Inv, program = "exchanges", Lose \/ Join \/ Restart
  PROVE  TypeInv' /\ ExchangeInv'
<1> USE DEF Inv, TypeInv, ExchangeInv
<1> USE StaysUnheard
<1>1. TypeInv'
  OBVIOUS
<1>2. SessionInv' /\ NeverAcrossSessions'
  BY DEF SessionInv, NeverAcrossSessions
<1>3. MixedOnlyIfUnheard'
  BY DEF MixedOnlyIfUnheard
<1>4. TailInv'
  BY DEF TailInv
<1>5. /\ at.x \in Nat /\ at.p \in Nat
      /\ whole.current # Nothing => whole.current.begin \in Nat
  BY DEF BoardInv, Readers, Open, Number
<1>6. OpenInv'
  <2> DEFINE c == whole.current
  <2> SUFFICES ASSUME c # Nothing
               PROVE  /\ c.begin <= at'.x /\ (c.begin = at'.x => at'.p > 2)
                      /\ \A x \in c.begin + 1 .. at'.x :
                           x < at'.x \/ at'.p > 1 => Unheard(Line("identity", x))'
                      /\ c.begin < at'.x /\ at'.p > 2 => Unheard(Line("begin", at.x))'
                      /\ c.home # None => c.home \in c.begin .. at'.x
                      /\ c.identity \notin {None, c.begin} => Line("identity", c.begin) \in lost'
    BY DEF OpenInv
  <2>1. /\ c.begin <= at.x /\ (c.begin = at.x => at.p > 2)
        /\ \A x \in c.begin + 1 .. at.x :
             x < at.x \/ at.p > 1 => Unheard(Line("identity", x))
        /\ c.begin < at.x /\ at.p > 2 => Unheard(Line("begin", at.x))
        /\ c.home # None => c.home \in c.begin .. at.x
        /\ c.identity \notin {None, c.begin} => Line("identity", c.begin) \in lost
    BY DEF OpenInv
  <2>2. \A l : Unheard(l) => Unheard(l)'
    BY DEF Unheard
  <2>3. \/ at' = [x |-> at.x, p |-> at.p + 1] /\ (at.p = 1 => Unheard(Line("identity", at.x))')
                                            /\ (at.p = 2 => Unheard(Line("begin", at.x))')
        \/ at' = [x |-> at.x + 1, p |-> 1] /\ at.p > 1
    <3>1. CASE Lose \/ Join
      BY <1>5, <3>1, NextUnheard DEF Unheard
    <3>2. CASE Restart
      BY <3>2 DEF Restart
    <3> QED BY <3>1, <3>2
  <2> HIDE DEF c
  <2>4. CASE at' = [x |-> at.x, p |-> at.p + 1]
    BY <1>5, <2>1, <2>2, <2>3, <2>4 DEF c
  <2>5. CASE at' = [x |-> at.x + 1, p |-> 1] /\ at.p > 1
    BY <1>5, <2>1, <2>2, <2>5 DEF c
  <2> QED BY <2>3, <2>4, <2>5
<1>7. CASE Lose \/ Join
  <2>2. IdentityInv'
    BY <1>5, <1>7, NextUnheard DEF IdentityInv, Unheard
  <2>3. AgreeInv'
    BY <1>5, <1>7, NextUnheard DEF AgreeInv, Number
  <2> QED BY <1>1, <1>2, <1>3, <1>4, <1>6, <2>2, <2>3
<1>8. CASE Restart
  <2>1. at' = [x |-> at.x + 1, p |-> 1]
    BY <1>8 DEF Restart
  <2>3. IdentityInv' /\ AgreeInv'
    BY <2>1 DEF IdentityInv, AgreeInv
  <2> QED BY <1>1, <1>2, <1>3, <1>4, <1>6, <2>3
<1> QED BY <1>7, <1>8

\* A new session closes what is open.
LEMMA Reconnects ==
  ASSUME Inv, program = "exchanges", Reconnect
  PROVE  TypeInv' /\ ExchangeInv'
<1> USE DEF Inv, TypeInv, ExchangeInv
<1>1. UNCHANGED <<program, at, joined>> /\ session' = session + 1 /\ held' = <<>>
  BY DEF Reconnect
<1>2. lost \subseteq lost' /\ \A l : Unheard(l) => l \in lost'
  <2>1. lost' = lost \cup {held[i] : i \in 1 .. Len(held)}
    BY DEF Reconnect
  <2>2. ASSUME NEW l, held = <<l>> PROVE l \in lost'
    <3>1. Len(<<l>>) = 1 /\ <<l>>[1] = l
      OBVIOUS
    <3> QED BY <2>1, <2>2, <3>1
  <2> QED BY <2>1, <2>2 DEF Unheard
<1>3. /\ whole' = InSession(whole) /\ cycles' = Cycles(cycles, <<>>)
      /\ tail' = IF tail = Nothing THEN tail ELSE InSession(tail)
  BY ReadSession DEF Reconnect, Emit
<1>4. session \in Nat /\ session >= 1 /\ session' # session /\ session' # None /\ session' \in Nat
  BY <1>1 DEF BoardInv, None
<1>5. whole' = [session |-> session', identity |-> None, current |-> Nothing, last |-> whole.last]
  BY <1>3, <1>4 DEF InSession, SessionInv, Readers
<1>6. cycles' = [session |-> session', identity |-> cycles.identity, current |-> Nothing,
                 last |-> cycles.last]
  BY <1>3, CyclesSession
<1>7. tail # Nothing =>
        tail' = [session |-> session', identity |-> None, current |-> Nothing, last |-> tail.last]
  <2>1. ASSUME tail # Nothing PROVE tail.session # session' /\ tail \in Readers
    BY <1>1, <1>4, <2>1 DEF TailInv
  <2> QED BY <1>3, <2>1 DEF InSession, Readers
<1>8. TypeInv'
  BY <1>1, <1>3, <1>4, <1>5, <1>6, <1>7 DEF Readers, None
<1>9. SessionInv' /\ NeverAcrossSessions'
  BY <1>5, <1>6 DEF SessionInv, NeverAcrossSessions
<1>10. OpenInv' /\ IdentityInv'
  BY <1>5 DEF OpenInv, IdentityInv
<1>11. MixedOnlyIfUnheard'
  BY <1>2, <1>5 DEF MixedOnlyIfUnheard
<1>12. AgreeInv'
  BY <1>1, <1>2, <1>5, <1>6 DEF AgreeInv, SameOpen
<1>13. TailInv'
  BY <1>3, <1>4, <1>5, <1>7 DEF TailInv, MissesOpen, SameOpen
<1> QED BY <1>8, <1>9, <1>10, <1>11, <1>12, <1>13

\* Every step preserves what holds of the readers.
LEMMA ExchangeStep == ASSUME Inv, [Next]_vars PROVE TypeInv' /\ ExchangeInv'
<1>1. CASE program = "trace"
  \* The readers of exchanges have nothing to read of a decision trace.
  <2>1. program' = "trace" /\ UNCHANGED <<whole, cycles, tail>>
    BY <1>1 DEF Next, Arrive, Lose, Join, Restart, Reconnect, TailBegins, Done, Prints, Emit, vars
  <2>2. TypeInv'
    BY <1>1, <2>1 DEF Inv, TypeInv
  <2>3. whole' = Reader(1) /\ cycles' = Reader(1) /\ tail' = Nothing
    BY <1>1, <2>1 DEF Inv, TypeInv
  <2>4. ExchangeInv'
    BY <2>1, <2>3 DEF ExchangeInv, Reader, SessionInv, NeverAcrossSessions, OpenInv, IdentityInv,
                      MixedOnlyIfUnheard, AgreeInv, TailInv, SameOpen
  <2> QED BY <2>2, <2>4
<1>2. CASE program = "exchanges"
  <2>1. CASE Arrive
    <3>1. Prints
      BY <2>1 DEF Arrive
    <3> QED BY <1>2, <2>1, <3>1, Printing, ArriveIdentity, ArriveBegin, ArriveHome, ArriveEnd DEF Inv
  <2>2. CASE Lose \/ Join \/ Restart
    BY <1>2, <2>2, NothingRead
  <2>3. CASE Reconnect
    BY <1>2, <2>3, Reconnects
  <2>4. CASE TailBegins
    <3>1. /\ UNCHANGED <<program, at, held, session, whole, cycles, trace, lost, joined>>
          /\ tail' = Reader(None)
      BY <2>4 DEF TailBegins
    <3>2. Reader(None) \in Readers
      BY DEF Reader, Readers, None
    <3>3. TypeInv'
      BY <1>2, <3>1, <3>2 DEF Inv, TypeInv
    <3>4. TailInv'
      BY <3>1 DEF TailInv, Reader, None
    <3>5. SessionInv' /\ NeverAcrossSessions' /\ OpenInv' /\ IdentityInv' /\ MixedOnlyIfUnheard' /\ AgreeInv'
      BY <3>1 DEF Inv, ExchangeInv, SessionInv, NeverAcrossSessions, OpenInv, IdentityInv,
                  MixedOnlyIfUnheard, AgreeInv, Unheard
    <3> QED BY <3>3, <3>4, <3>5 DEF ExchangeInv
  <2>5. CASE Done \/ UNCHANGED vars
    BY <2>5 DEF Done, vars, Inv, TypeInv, ExchangeInv, SessionInv, NeverAcrossSessions, OpenInv,
                IdentityInv, MixedOnlyIfUnheard, AgreeInv, TailInv, Unheard
  <2> QED BY <2>1, <2>2, <2>3, <2>4, <2>5 DEF Next
<1> QED BY <1>1, <1>2 DEF Inv, BoardInv

-----------------------------------------------------------------------------
(* Decision traces *)

Kinds == {"row", "table", "traceEnd", "decision"}

\* The lines of a trace, by their places.
LEMMA TraceLine ==
  \A x : /\ Len(TraceLines(x)) = 8
         /\ TraceLines(x)[1] = Table(x, 0, 2) /\ TraceLines(x)[2] = Row(x, 0, 0)
         /\ TraceLines(x)[3] = Row(x, 0, 1) /\ TraceLines(x)[4] = Table(x, 1, 1)
         /\ TraceLines(x)[5] = Row(x, 1, 0) /\ TraceLines(x)[6] = Decision(x, 0)
         /\ TraceLines(x)[7] = Decision(x, 1)
         /\ TraceLines(x)[8] = TraceEnd(x, Overflows(x))
  BY DEF TraceLines

\* A line is found in every text, and it is one of the text.
LEMMA PickedIsPrinted ==
  ASSUME NEW text, NEW n \in {1, 2}, Len(text) = n, \A i \in 1 .. n : text[i].k \in Kinds
  PROVE  \E i \in 1 .. n : Picked(text) = text[i]
<1> DEFINE Fits(kind) ==
      /\ Has(text, kind)
      /\ kind = "table" => ~Has(text, "row")
      /\ kind = "traceEnd" => ~Has(text, "row") /\ ~Has(text, "table")
      /\ kind = "decision" => Len(text) = 1 \/ ~\E i \in 1 .. Len(text) : text[i].k # kind
<1>1. \A kind : Has(text, kind) <=> \E i \in 1 .. n : text[i].k = kind
  BY DEF Has
<1>2. \E kind \in Kinds : Fits(kind)
  <2>1. CASE Has(text, "row")
    BY <2>1 DEF Kinds
  <2>2. CASE ~Has(text, "row") /\ Has(text, "table")
    BY <2>2 DEF Kinds
  <2>3. CASE ~Has(text, "row") /\ ~Has(text, "table") /\ Has(text, "traceEnd")
    BY <2>3 DEF Kinds
  <2>4. CASE ~Has(text, "row") /\ ~Has(text, "table") /\ ~Has(text, "traceEnd")
    <3>1. \A i \in 1 .. n : text[i].k = "decision"
      BY <1>1, <2>4 DEF Kinds
    <3> QED BY <1>1, <3>1 DEF Kinds
  <2> QED BY <2>1, <2>2, <2>3, <2>4
<1> DEFINE kind == CHOOSE k \in Kinds : Fits(k)
<1>3. Picked(text) = Found(text, kind)
  BY DEF Picked, Kinds
<1>4. Has(text, kind)
  <2> HIDE DEF Fits
  <2>1. Fits(kind)
    BY <1>2
  <2> QED BY <2>1 DEF Fits
<1> HIDE DEF kind
<1>5. \E i \in 1 .. n : Found(text, kind) = text[i]
  <2>1. \E i \in 1 .. n : text[i].k = kind /\ \A j \in 1 .. i - 1 : text[j].k # kind
    BY <1>1, <1>4
  <2> QED BY <2>1 DEF Found
<1> QED BY <1>3, <1>5

\* What is found of a trace is what the board printed of it.
LEMMA TraceStep ==
  ASSUME BoardInv, TraceInv, [Next]_vars
  PROVE  TraceInv'
<1> DEFINE Is(l) == \E x \in Number, i \in 1 .. 8 : l = TraceLines(x)[i]
<1>1. program' = program
  BY DEF Next, Arrive, Lose, Join, Restart, Reconnect, TailBegins, Done, Prints, vars
<1>2. CASE program = "exchanges"
  <2>1. trace' = trace
    BY <1>2 DEF Next, Arrive, Lose, Join, Restart, Reconnect, TailBegins, Done, Emit, vars
  <2> QED BY <1>1, <2>1 DEF TraceInv
<1>3. CASE program = "trace" /\ Arrive
  <2>1. Prints /\ trace' \in {trace, trace \cup {Picked(Printed)}}
    BY <1>3 DEF Arrive, Emit
  <2>2. at.x \in Number /\ at.p \in 1 .. 8
    BY <1>3 DEF Arrive, Prints, BoardInv, Number
  <2> DEFINE l == TraceLines(at.x)[at.p]
  <2>3. Lines(at.x)[at.p] = l /\ Is(l)
    BY <1>3, <2>2 DEF Lines
  <2>4. held # <<>> => held = <<Before>> /\ Is(Before)
    <3>1. SUFFICES ASSUME held # <<>> PROVE Is(Before)
      BY DEF BoardInv
    <3>2. CASE at.p > 1
      <4>1. Before = TraceLines(at.x)[at.p - 1] /\ at.p - 1 \in 1 .. 8
        BY <1>3, <2>2, <3>2 DEF Before, Lines
      <4> QED BY <2>2, <4>1
    <3>3. CASE at.p = 1
      <4>1. at.x - 1 \in Number
        BY <2>2, <3>1, <3>3 DEF BoardInv, Number
      <4>2. Before = TraceLines(at.x - 1)[8]
        BY <1>3, <3>3, TraceLine DEF Before, Lines
      <4> QED BY <4>1, <4>2
    <3> QED BY <2>2, <3>2, <3>3
  <2>5. \A k : Is(k) => k.k \in Kinds
    <3> SUFFICES ASSUME NEW x \in Number, NEW i \in 1 .. 8 PROVE TraceLines(x)[i].k \in Kinds
      OBVIOUS
    <3>1. i = 1 \/ i = 2 \/ i = 3 \/ i = 4 \/ i = 5 \/ i = 6 \/ i = 7 \/ i = 8
      OBVIOUS
    <3>2. /\ \A t, n : Table(x, t, n).k \in Kinds /\ Row(x, t, n).k \in Kinds
          /\ \A t : Decision(x, t).k \in Kinds /\ TraceEnd(x, t).k \in Kinds
      BY DEF Table, Row, Decision, TraceEnd, Kinds
    <3> QED BY <3>1, <3>2, TraceLine
  <2> HIDE DEF Is, l
  <2>6. Is(Picked(Printed))
    <3>1. CASE held = <<>>
      <4>1. Printed = <<l>> /\ Len(<<l>>) = 1 /\ <<l>>[1] = l
        BY <2>3, <3>1 DEF Printed
      <4>2. \E i \in 1 .. 1 : Picked(<<l>>) = <<l>>[i]
        BY <2>3, <2>5, <4>1, PickedIsPrinted
      <4> QED BY <2>3, <4>1, <4>2
    <3>2. CASE held # <<>>
      <4> DEFINE m == Before
      <4>1. Printed = <<m, l>>
        BY <2>3, <2>4, <3>2, AppendToOne DEF Printed
      <4> HIDE DEF m
      <4>2. Len(<<m, l>>) = 2 /\ <<m, l>>[1] = m /\ <<m, l>>[2] = l
        OBVIOUS
      <4>3. m.k \in Kinds /\ l.k \in Kinds /\ Is(m) /\ Is(l)
        BY <2>3, <2>4, <2>5, <3>2 DEF m
      <4>4. \A i \in 1 .. 2 : <<m, l>>[i].k \in Kinds
        BY <4>2, <4>3
      <4>5. \E i \in 1 .. 2 : Picked(<<m, l>>) = <<m, l>>[i]
        BY <4>2, <4>4, PickedIsPrinted
      <4> QED BY <4>1, <4>2, <4>3, <4>5
    <3> QED BY <3>1, <3>2
  <2> QED BY <1>1, <1>3, <2>1, <2>6 DEF TraceInv, Is
<1>4. CASE program = "trace" /\ ~Arrive
  <2>1. trace' = trace
    BY <1>4 DEF Next, Lose, Join, Restart, Reconnect, TailBegins, Done, Emit, vars
  <2> QED BY <1>1, <1>4, <2>1 DEF TraceInv
<1> QED BY <1>2, <1>3, <1>4 DEF BoardInv

\* Two of two are both.
LEMMA BothOfTwo ==
  ASSUME NEW a, NEW b, NEW S \in SUBSET {a, b}, Cardinality(S) = 2
  PROVE  a \in S /\ b \in S
<1>1. ASSUME NEW c, S \subseteq {c} PROVE FALSE
  <2>1. IsFiniteSet({c}) /\ Cardinality({c}) = 1
    BY FS_Singleton
  <2>2. Cardinality(S) <= 1
    BY <1>1, <2>1, FS_Subset
  <2> QED BY <2>2
<1> QED BY <1>1

\* What passes parse_lines() has the end that the board printed last, and the end
\* counts the tables and decisions, which count the rows.
LEMMA WholeOrAbsent == ASSUME TraceInv PROVE TraceWholeOrAbsent
<1> SUFFICES ASSUME Accepted, NEW x \in 1 .. Exchanges, Count("decision", x) # 0
             PROVE  ~Overflows(x) /\ \A i \in 1 .. Len(TraceLines(x)) : TraceLines(x)[i] \in trace
  BY DEF TraceWholeOrAbsent
<1>1. ASSUME NEW l \in trace
      PROVE  \E y \in Number :
               l \in {Table(y, 0, 2), Row(y, 0, 0), Row(y, 0, 1), Table(y, 1, 1), Row(y, 1, 0),
                      Decision(y, 0), Decision(y, 1), TraceEnd(y, Overflows(y))}
  <2>1. PICK y \in Number, i \in 1 .. 8 : l = TraceLines(y)[i]
    BY <1>1 DEF TraceInv
  <2>2. i = 1 \/ i = 2 \/ i = 3 \/ i = 4 \/ i = 5 \/ i = 6 \/ i = 7 \/ i = 8
    OBVIOUS
  <2> QED BY <2>1, <2>2, TraceLine
<1> DEFINE
      decisions == {l \in OfKind("decision") : l.x = x}
      tables == {l \in OfKind("table") : l.x = x}
<1>2. decisions \in SUBSET {Decision(x, 0), Decision(x, 1)}
  BY <1>1 DEF OfKind, Decision, Table, Row, TraceEnd
<1>3. tables \in SUBSET {Table(x, 0, 2), Table(x, 1, 1)}
  BY <1>1 DEF OfKind, Decision, Table, Row, TraceEnd
<1>4. \E d : d \in decisions
  <2>1. decisions # {}
    BY FS_EmptySet DEF Count
  <2> QED BY <2>1
<1>5. TraceEnd(x, Overflows(x)) \in OfKind("traceEnd")
  <2>1. PICK e \in OfKind("traceEnd") : e.x = x
    BY <1>4 DEF Accepted, NoneUnended
  <2> QED BY <1>1, <2>1 DEF OfKind, Decision, Table, Row, TraceEnd
<1>6. ~Overflows(x) /\ Cardinality(tables) = 2 /\ Cardinality(decisions) = 2
  BY <1>5 DEF Accepted, EndsFit, TraceEnd, Count
<1> HIDE DEF decisions, tables
<1>7. Decision(x, 0) \in decisions /\ Decision(x, 1) \in decisions
  BY <1>2, <1>6, BothOfTwo
<1>8. Table(x, 0, 2) \in tables /\ Table(x, 1, 1) \in tables
  BY <1>3, <1>6, BothOfTwo
<1>9. RowsOf(x, 0) = 0 .. 1 /\ RowsOf(x, 1) = 0 .. 0
  <2>1. Table(x, 0, 2) \in OfKind("table") /\ Table(x, 1, 1) \in OfKind("table")
    BY <1>8 DEF tables
  <2> QED BY <2>1 DEF Accepted, RowsFit, Table
<1>10. ASSUME NEW t, NEW n \in RowsOf(x, t)
       PROVE  Row(x, t, n) \in trace
  <2>1. PICK l \in OfKind("row") : l.x = x /\ l.t = t /\ l.r = n
    BY <1>10 DEF RowsOf
  <2> QED BY <1>1, <2>1 DEF OfKind, Decision, Table, Row, TraceEnd
<1>11. Row(x, 0, 0) \in trace /\ Row(x, 0, 1) \in trace /\ Row(x, 1, 0) \in trace
  BY <1>9, <1>10
<1>12. ASSUME NEW i \in 1 .. 8 PROVE TraceLines(x)[i] \in trace
  <2>1. i = 1 \/ i = 2 \/ i = 3 \/ i = 4 \/ i = 5 \/ i = 6 \/ i = 7 \/ i = 8
    OBVIOUS
  <2> QED BY <1>5, <1>7, <1>8, <1>11, <2>1, TraceLine DEF decisions, tables, OfKind
<1> QED BY <1>6, <1>12, TraceLine

-----------------------------------------------------------------------------
(* The theorems *)

\* Initially nothing has been read.
LEMMA InitIInv == Init => IInv
<1> SUFFICES ASSUME Init PROVE IInv
  OBVIOUS
<1>1. TypeInv
  BY DEF Init, TypeInv, Reader, Readers, None
<1>2. BoardInv
  <2> DEFINE n == Len(Lines(at.x))
  <2>1. n = 8 \/ n = 4
    BY DEF Lines, ExchangeLines, TraceLines
  <2> HIDE DEF n
  <2>2. 1 <= n
    BY <2>1
  <2>3. at.p <= Len(Lines(at.x))
    BY <2>2 DEF Init, n
  <2> QED BY <2>3 DEF Init, BoardInv
<1>3. ExchangeInv
  BY DEF Init, ExchangeInv, Reader, SessionInv, NeverAcrossSessions, OpenInv, IdentityInv,
         MixedOnlyIfUnheard, AgreeInv, TailInv, SameOpen
<1>4. TraceInv
  BY DEF Init, TraceInv
<1> QED BY <1>1, <1>2, <1>3, <1>4 DEF Inv, IInv

\* The invariant holds of every run.
THEOREM Invariance == Spec => []IInv
<1>1. IInv /\ [Next]_vars => IInv'
  BY BoardStep, ExchangeStep, TraceStep DEF Inv, IInv
<1> QED BY <1>1, InitIInv, PTL DEF Spec

\* No exchange that parse_evidence() or parse() returns is made of lines of two
\* connections, however many exchanges, losses and reconnections there were.
THEOREM OneSessionEach == Spec => []NeverAcrossSessions
<1>1. IInv => NeverAcrossSessions
  BY DEF IInv, Inv, ExchangeInv
<1> QED BY <1>1, Invariance, PTL

\* parse_evidence() mixes exchanges only if nothing told it of the later ones.
THEOREM MixesUnheardOnly == Spec => []MixedOnlyIfUnheard
<1>1. IInv => MixedOnlyIfUnheard
  BY DEF IInv, Inv, ExchangeInv
<1> QED BY <1>1, Invariance, PTL

\* The dashboard and the evidence show the same exchanges, unless lines are joined
\* or a beginning is lost; so do the whole log and a tail of it wherever both show
\* one.
THEOREM ReadersShowTheSame == Spec => []ReadersAgree
<1>1. IInv => ReadersAgree
  BY DEF IInv, Inv, ExchangeInv, AgreeInv, TailInv, Misses, ReadersAgree
<1> QED BY <1>1, Invariance, PTL

\* parse_lines() passes an exchange's decisions as a whole or not at all.
THEOREM TraceIsWhole == Spec => []TraceWholeOrAbsent
<1>1. IInv => TraceWholeOrAbsent
  BY WholeOrAbsent DEF IInv
<1> QED BY <1>1, Invariance, PTL
=============================================================================
