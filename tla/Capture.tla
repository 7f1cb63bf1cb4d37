------------------------------ MODULE Capture -------------------------------
(***************************************************************************)
(* One board's serial output on its way into the analysis: the board prints *)
(* its exchanges, scripts/timestamp_serial.py appends the lines to a log,   *)
(* and the analysis reads them, line by line: parse_evidence() of           *)
(* scripts/rendezvous_evidence.py, parse() of scripts/analyze_rendezvous.py *)
(* and, for decision traces, parse_lines() of scripts/decision_snapshots.py.*)
(*                                                                          *)
(*  - A line is its kind and the exchange it belongs to; of what exchanges  *)
(*    report the home is kept.  "@" records and their long forms are the    *)
(*    same here.                                                            *)
(*  - The loop variables of the readers are state, so that what a reader    *)
(*    returns for the log so far can be seen at any time.  Of what they     *)
(*    return, the latest exchange is kept.                                  *)
(*  - logger-noise lines are left out: no reader looks for them.            *)
(***************************************************************************)
EXTENDS Integers, Sequences, FiniteSets

CONSTANTS
  Exchanges,    \* the board prints this many
  Faults        \* bound on lines lost or joined, resets and reconnections

ASSUME BoundsAssumption == Exchanges \in Nat /\ Faults \in Nat

None == 0

VARIABLES
  program,   \* "exchanges", or "trace": which of a board's lines are printed here
  at,        \* where the board is: exchange x, line p
  held,      \* a line whose end has not arrived
  session,   \* number of the logger's session
  whole,     \* parse_evidence() of the whole log
  tail,      \* parse_evidence() of a tail of it, or of the latest session
  cycles,    \* parse()
  trace,     \* what parse_lines() has found
  lost,      \* history: lines that are in no log
  joined,    \* history: a line's end was lost
  faults

vars == <<program, at, held, session, whole, tail, cycles, trace, lost, joined, faults>>

-----------------------------------------------------------------------------
(* What the board prints *)

Line(kind, x) == [k |-> kind, x |-> x]

\* The records of an exchange that the readers look for.
ExchangeLines(x) == <<Line("identity", x), Line("begin", x), Line("home", x), Line("end", x)>>

\* emitDecisionTrace(): two versions of the association table and a decision made
\* with each.  The last exchange makes another that the trace does not hold.
Row(x, t, r) == [k |-> "row", x |-> x, t |-> t, r |-> r]
Table(x, t, n) == [k |-> "table", x |-> x, t |-> t, n |-> n]
Decision(x, t) == [k |-> "decision", x |-> x, t |-> t]
TraceEnd(x, overflow) ==
  [k |-> "traceEnd", x |-> x, tables |-> 2, decisions |-> 2, overflow |-> overflow]

Overflows(x) == x = Exchanges

TraceLines(x) ==
  <<Table(x, 0, 2), Row(x, 0, 0), Row(x, 0, 1), Table(x, 1, 1), Row(x, 1, 0),
    Decision(x, 0), Decision(x, 1), TraceEnd(x, Overflows(x))>>

Lines(x) == IF program = "trace" THEN TraceLines(x) ELSE ExchangeLines(x)

-----------------------------------------------------------------------------
(* parse_evidence() *)

Nothing == [begin |-> None]

\* identity: of the latest identity record.  current, last: the exchange that
\* is open and the latest that was completed, each with the lines it is made of.
Reader(sess) == [session |-> sess, identity |-> None, current |-> Nothing, last |-> Nothing]

Has(text, kind) == \E i \in 1 .. Len(text) : text[i].k = kind
Found(text, kind) == text[CHOOSE i \in 1 .. Len(text) : text[i].k = kind /\
                            \A j \in 1 .. i - 1 : text[j].k # kind]

\* Wrong: what is open is kept over a change of session.
KeepsSession(r) == [r EXCEPT !.session = session']

InSession(r) ==
  IF r.session = session' THEN r
  ELSE [r EXCEPT !.session = session', !.identity = None, !.current = Nothing]

\* Wrong: an identity does not end the exchange before it.
IdentityOnly(r, text) ==
  IF Has(text, "identity") THEN [r EXCEPT !.identity = Found(text, "identity").x] ELSE r

OnIdentity(r, text) ==
  IF Has(text, "identity")
  THEN [r EXCEPT !.identity = Found(text, "identity").x, !.current = Nothing] ELSE r

OnBegin(r, text) ==
  IF Has(text, "begin")
  THEN [r EXCEPT !.current = [begin |-> Found(text, "begin").x, identity |-> r.identity,
                              home |-> None, session |-> session']]
  ELSE r

OnHome(r, text) ==
  IF Has(text, "home") /\ r.current # Nothing
  THEN [r EXCEPT !.current.home = Found(text, "home").x] ELSE r

Completed(current, text) ==
  [begin |-> current.begin, identity |-> current.identity, home |-> current.home,
   session |-> current.session, end |-> Found(text, "end").x, endSession |-> session']

OnEnd(r, text) ==
  IF Has(text, "end") /\ r.current # Nothing
  THEN [r EXCEPT !.last = Completed(r.current, text), !.current = Nothing] ELSE r

\* One record, which may be two that were joined.
Evidence(r, text) == OnEnd(OnHome(OnBegin(OnIdentity(InSession(r), text), text), text), text)

-----------------------------------------------------------------------------
(* parse(): one branch for each line, and no identities *)

Anew(c) == [c EXCEPT !.current = Nothing, !.session = session']

\* Wrong: a cycle that is open goes on.
StartWhenIdle(c, text) ==
  IF c.current = Nothing THEN [c EXCEPT !.current = OnBegin(c, text).current] ELSE c

Start(c, text) == [c EXCEPT !.current = OnBegin(c, text).current]

Cycles(c0, text) ==
  LET c == IF text = <<>> THEN Anew(c0) ELSE c0
  IN  IF Has(text, "begin") THEN Start(c, text)
      ELSE IF Has(text, "end") /\ c.current # Nothing THEN OnEnd(c, text)
      ELSE OnHome(c, text)

-----------------------------------------------------------------------------
(* parse_lines() *)

\* A line is searched for a row first, then a table, an end and a decision.
Picked(text) ==
  Found(text, CHOOSE kind \in {"row", "table", "traceEnd", "decision"} :
    /\ Has(text, kind)
    /\ kind = "table" => ~Has(text, "row")
    /\ kind = "traceEnd" => ~Has(text, "row") /\ ~Has(text, "table")
    /\ kind = "decision" => Len(text) = 1 \/ ~\E i \in 1 .. Len(text) : text[i].k # kind)

OfKind(kind) == {l \in trace : l.k = kind}
RowsOf(x, t) == {l.r : l \in {r \in OfKind("row") : r.x = x /\ r.t = t}}
Count(kind, x) == Cardinality({l \in OfKind(kind) : l.x = x})

\* Rows are contiguous and belong to a table, which has them all; the
\* fingerprint adds that they are its rows.
RowsFit ==
  /\ \A r \in OfKind("row") : \E l \in OfKind("table") : l.x = r.x /\ l.t = r.t
  /\ \A l \in OfKind("table") : RowsOf(l.x, l.t) = 0 .. l.n - 1

DecisionsFit == \A d \in OfKind("decision") : \E l \in OfKind("table") : l.x = d.x /\ l.t = d.t

EndsFit ==
  \A e \in OfKind("traceEnd") :
    ~e.overflow /\ Count("table", e.x) = e.tables /\ Count("decision", e.x) = e.decisions

\* Wrong: a trace without its end passes.
EndsNotNeeded == TRUE

NoneUnended == \A d \in OfKind("decision") : \E e \in OfKind("traceEnd") : e.x = d.x

\* No ValueError.
Accepted == RowsFit /\ DecisionsFit /\ EndsFit /\ NoneUnended

-----------------------------------------------------------------------------
Init ==
  /\ program \in {"exchanges", "trace"} /\ at = [x |-> 1, p |-> 1]
  /\ held = <<>> /\ session = 1
  /\ whole = Reader(1) /\ tail = Nothing /\ cycles = Reader(1)
  /\ trace = {} /\ lost = {} /\ joined = FALSE /\ faults = 0

Fault == faults < Faults /\ faults' = faults + 1

\* A text, or the logger-session line, comes to the log and to its readers.
Emit(text) ==
  IF program = "trace"
  THEN /\ trace' = IF text = <<>> THEN trace ELSE trace \cup {Picked(text)}
       /\ UNCHANGED <<whole, tail, cycles>>
  ELSE /\ whole' = Evidence(whole, text) /\ cycles' = Cycles(cycles, text)
       /\ tail' = IF tail = Nothing THEN tail ELSE Evidence(tail, text)
       /\ UNCHANGED trace

NextLine == IF at.p < Len(Lines(at.x)) THEN [at EXCEPT !.p = @ + 1] ELSE [x |-> at.x + 1, p |-> 1]

\* The board prints its next line, ...
Prints == at.x <= Exchanges /\ at' = NextLine /\ UNCHANGED <<program, session>>
Printed == Append(held, Lines(at.x)[at.p])

\* ... which arrives, ...
Arrive ==
  /\ Prints /\ Emit(Printed) /\ held' = <<>>
  /\ UNCHANGED <<lost, joined, faults>>

\* ... or does not arrive, or damaged, so that clean_serial_line() drops it, ...
Lose ==
  /\ Prints /\ Fault
  /\ lost' = lost \cup {Printed[i] : i \in 1 .. Len(Printed)} /\ held' = <<>>
  /\ UNCHANGED <<whole, tail, cycles, trace, joined>>

\* ... or without its end.
Join ==
  /\ Prints /\ Fault /\ held = <<>>
  /\ held' = Printed /\ joined' = TRUE
  /\ UNCHANGED <<whole, tail, cycles, trace, lost>>

\* The board restarts in the middle of an exchange.
Restart ==
  /\ Fault /\ at.x <= Exchanges /\ at.p > 1
  /\ at' = [x |-> at.x + 1, p |-> 1]
  /\ held' = <<>> /\ lost' = lost \cup {held[i] : i \in 1 .. Len(held)}
  /\ UNCHANGED <<program, session, whole, tail, cycles, trace, joined>>

\* reconnect_log(): an unfinished line is not carried into the next session.
Reconnect ==
  /\ Fault
  /\ session' = session + 1
  /\ held' = <<>> /\ lost' = lost \cup {held[i] : i \in 1 .. Len(held)}
  /\ Emit(<<>>)
  /\ UNCHANGED <<program, at, joined>>

\* read_local_tail() or select() begins here.
TailBegins ==
  /\ program = "exchanges" /\ tail = Nothing
  /\ tail' = Reader(None)
  /\ UNCHANGED <<program, at, held, session, whole, cycles, trace, lost, joined, faults>>

Done == at.x > Exchanges /\ UNCHANGED vars

Next == Arrive \/ Lose \/ Join \/ Restart \/ Reconnect \/ TailBegins \/ Done

Spec == Init /\ [][Next]_vars

-----------------------------------------------------------------------------
\* No exchange is put together from lines of two connections
\* (parse_evidence(), parse()).
NeverAcrossSessions ==
  \A r \in {whole, cycles} : r.last # Nothing => r.last.session = r.last.endSession

\* An exchange is put together from lines of two only if of each exchange after
\* its first neither the identity nor the beginning arrived; and its home is
\* one that the board reported in one of these.  It has another one's identity
\* only if its own was lost.
MixedOnlyIfUnheard ==
  LET e == whole.last
  IN  e # Nothing =>
        /\ \A x \in e.begin + 1 .. e.end :
             /\ Line("identity", x) \in lost
             /\ x = e.end => Line("begin", x) \in lost
        /\ e.home # None => e.home \in e.begin .. e.end
        /\ e.identity \notin {None, e.begin} => Line("identity", e.begin) \in lost

Outline(e) == IF e = Nothing THEN e ELSE [begin |-> e.begin, home |-> e.home, end |-> e.end]

\* The dashboard and the evidence see the same exchanges, unless the beginning
\* of one is lost or records are joined.  A tail of the log shows the same
\* exchanges as the log, from the first that begins in it: it may only miss the
\* identity of that one.
ReadersAgree ==
  /\ ~joined /\ (\A x \in 1 .. Exchanges : Line("begin", x) \notin lost) =>
       Outline(whole.last) = Outline(cycles.last)
  /\ tail # Nothing /\ tail.last # Nothing =>
       /\ Outline(tail.last) = Outline(whole.last)
       /\ tail.last.identity \in {None, whole.last.identity}

\* Whatever was lost, the decisions of an exchange pass as a whole or not at all.
TraceWholeOrAbsent ==
  program = "trace" /\ Accepted =>
    \A x \in 1 .. Exchanges : \/ Count("decision", x) = 0
                              \/ ~Overflows(x) /\ \A i \in 1 .. Len(TraceLines(x)) : TraceLines(x)[i] \in trace
=============================================================================
