-------------------------- MODULE ConnectionProofs --------------------------
(***************************************************************************)
(* Callbacks, references and answers of a connection, for any number of    *)
(* callers and in any order of their steps; and what the server that makes *)
(* the connections promises to those who ask for one.                      *)
(***************************************************************************)
EXTENDS Connection, TcpServer, FiniteSetTheorems, TLAPS

Pcs     == {"idle", "found", "failed", "locked", "sent", "built", "leaving", "done"}
Items   == Invokes \cup {"note", "answer"}
Arrives == Invokes \cup {"request", "note", "nonsense"}
Results == Invokes \cup {"error", "destroyed", "timedout"}

CxType ==
    [obj : {"live", "gone"}, callers : SUBSET Callers, may : SUBSET Troubles,
     listed : BOOLEAN, shut : BOOLEAN, want : BOOLEAN, ready : BOOLEAN,
     closeCalled : BOOLEAN, released : BOOLEAN, refs : Int, queue : Seq(Items),
     writing : BOOLEAN, reading : BOOLEAN, posted : BOOLEAN,
     armed : BOOLEAN, due : BOOLEAN, handlers : Seq(Invokes),
     releasing : Closers \cup {"nobody", "strand"}, raced : BOOLEAN, lost : BOOLEAN]

CallType == [pc : Pcs, timer : {"none", "armed", "due", "off"}, tried : BOOLEAN, got : Seq(Results)]

WireType == [asked : Seq(Invokes), inbox : Seq(Arrives), eof : BOOLEAN, sent : Nat]

ConnTyped ==
    /\ cx \in CxType
    /\ calls \in [Callers -> CallType]
    /\ closer \in [Closers -> {"off", "found", "empty", "queued", "done", "erased"}]
    /\ wire \in WireType
    /\ cx.writing => cx.queue # <<>>

-----------------------------------------------------------------------------
\* One callback.  k is a call, q where its timer's callback is in close: as
\* long as something can still call back, nothing has.
OncePer(k, q) ==
    /\ k.pc \in {"idle", "found", "failed", "locked", "sent"} => k.timer = "none" /\ k.got = <<>>
    /\ k.pc = "built" /\ k.timer = "none" => k.got = <<>>
    /\ k.timer \in {"none", "armed"} => q = "off"
    /\ k.timer = "armed" => k.got = <<>>
    /\ k.timer = "due" /\ q = "off" => k.got = <<>>
    /\ Len(k.got) <= 1

Once == \A c \in Invokes : OncePer(calls[c], closer[c])

-----------------------------------------------------------------------------
\* The order of the answers.

\* Responses are still read.
Listening == cx.reading /\ ~cx.shut

\* Requests and responses that are queued or under way.
Flight == Range(wire.inbox) \cup Range(wire.asked) \cup Range(cx.queue)

Ascending(s, rank) ==
    \A i, j \in DOMAIN s : i < j /\ s[i] \in Invokes /\ s[j] \in Invokes => rank[s[i]] < rank[s[j]]

Below(s, t, rank) ==
    \A i \in DOMAIN s, j \in DOMAIN t :
        s[i] \in Invokes /\ t[j] \in Invokes => rank[s[i]] < rank[t[j]]

\* rank numbers the invokes in the order of their requests: answers arrive in
\* this order and, unless there was a race, handlers were added in it.
RankedBy(rank, n) ==
    /\ \A c \in Invokes : rank[c] <= n
    /\ Ascending(wire.inbox, rank) /\ Ascending(wire.asked, rank) /\ Ascending(cx.queue, rank)
    /\ Below(wire.inbox, wire.asked, rank) /\ Below(wire.inbox, cx.queue, rank)
    /\ Below(wire.asked, cx.queue, rank)
    /\ ~cx.raced =>
          /\ Ascending(cx.handlers, rank)
          /\ \A i \in DOMAIN cx.handlers, c \in Invokes :
                calls[c].pc \in {"sent", "built"} => rank[cx.handlers[i]] < rank[c]

Ranked == \E rank \in [Invokes -> Nat], n \in Nat : RankedBy(rank, n)

Unsent == {c \in Invokes : calls[c].pc \in {"idle", "found", "failed", "locked"}}

\* Unless there was a race, the answers that handlers wait for are to come:
\* those of handlers not added yet, and those of all handlers behind a first
\* one that can still be given its answer.
Awaited ==
    Listening /\ ~cx.raced =>
        /\ \A c \in Invokes : calls[c].pc \in {"sent", "built"} => c \in Flight
        /\ cx.handlers # <<>> /\ CancelTimer(calls[Head(cx.handlers)]) =>
              Range(cx.handlers) \subseteq Flight

Ordered ==
    /\ Ranked /\ Awaited /\ OwnAnswer
    /\ \A c \in Unsent : c \notin Flight /\ c \notin Range(cx.handlers)

ConnInv == ConnTyped /\ Once /\ ReferencesArePaired /\ Ordered

-----------------------------------------------------------------------------
\* Sequences

LEMMA AppendFacts ==
    ASSUME NEW S, NEW s \in Seq(S), NEW e \in S
    PROVE  /\ Append(s, e) \in Seq(S) /\ Len(Append(s, e)) = Len(s) + 1 /\ Append(s, e) # <<>>
           /\ \A i \in DOMAIN s : i \in DOMAIN Append(s, e) /\ Append(s, e)[i] = s[i]
           /\ \A i \in DOMAIN Append(s, e) : i \in DOMAIN s \/ i = Len(s) + 1
           /\ Len(s) + 1 \in DOMAIN Append(s, e) /\ Append(s, e)[Len(s) + 1] = e
           /\ \A i \in DOMAIN s : i < Len(s) + 1
           /\ Range(Append(s, e)) = Range(s) \cup {e}
<1>1. /\ Append(s, e) \in Seq(S) /\ Len(Append(s, e)) = Len(s) + 1 /\ Len(s) \in Nat
      /\ Append(s, e)[Len(s) + 1] = e
      /\ \A i \in 1 .. Len(s) : Append(s, e)[i] = s[i]
    OBVIOUS
<1>2. DOMAIN s = 1 .. Len(s) /\ DOMAIN Append(s, e) = 1 .. Len(s) + 1
    BY <1>1
<1>3. Append(s, e) # <<>>
    BY <1>1
<1>4. \A x : x \in Range(Append(s, e)) <=> x \in Range(s) \/ x = e
  <2>1. ASSUME NEW x \in Range(s) PROVE x \in Range(Append(s, e))
    <3>1. PICK i \in 1 .. Len(s) : s[i] = x
        BY <2>1, <1>2 DEF Range
    <3>2. i \in DOMAIN Append(s, e) /\ Append(s, e)[i] = x
        BY <3>1, <1>1, <1>2
    <3> QED
        BY <3>2 DEF Range
  <2>2. e \in Range(Append(s, e))
    <3>1. Len(s) + 1 \in DOMAIN Append(s, e)
        BY <1>1, <1>2
    <3> QED
        BY <3>1, <1>1 DEF Range
  <2>3. ASSUME NEW x \in Range(Append(s, e)), x # e PROVE x \in Range(s)
    <3>1. PICK i \in DOMAIN Append(s, e) : Append(s, e)[i] = x
        BY <2>3 DEF Range
    <3>2. i \in 1 .. Len(s)
        BY <3>1, <2>3, <1>1, <1>2
    <3> QED
        BY <3>1, <3>2, <1>1, <1>2 DEF Range
  <2> QED
      BY <2>1, <2>2, <2>3
<1> QED
    BY <1>1, <1>2, <1>3, <1>4

LEMMA TailFacts ==
    ASSUME NEW S, NEW s \in Seq(S), s # <<>>
    PROVE  /\ Tail(s) \in Seq(S) /\ Head(s) \in S /\ Head(s) = s[1] /\ 1 \in DOMAIN s
           /\ \A i \in DOMAIN Tail(s) : i + 1 \in DOMAIN s /\ 1 < i + 1 /\ Tail(s)[i] = s[i + 1]
           /\ \A i, j \in DOMAIN Tail(s) : i < j => i + 1 < j + 1
           /\ \A i \in DOMAIN s : i = 1 \/ (1 < i /\ i - 1 \in DOMAIN Tail(s) /\ Tail(s)[i - 1] = s[i])
           /\ Range(s) = Range(Tail(s)) \cup {Head(s)}
<1>1. /\ Len(s) \in Nat /\ Len(s) >= 1 /\ Tail(s) \in Seq(S) /\ Len(Tail(s)) = Len(s) - 1
      /\ Head(s) = s[1] /\ \A i \in 1 .. Len(s) - 1 : Tail(s)[i] = s[i + 1]
    OBVIOUS
<1>2. DOMAIN s = 1 .. Len(s) /\ DOMAIN Tail(s) = 1 .. Len(s) - 1
    BY <1>1
<1>3. 1 \in DOMAIN s /\ Head(s) \in S
    BY <1>1, <1>2
<1>4. \A i \in DOMAIN Tail(s) : i + 1 \in DOMAIN s /\ 1 < i + 1 /\ Tail(s)[i] = s[i + 1]
    BY <1>1, <1>2
<1>5. \A i \in DOMAIN s : i = 1 \/ (1 < i /\ i - 1 \in DOMAIN Tail(s) /\ Tail(s)[i - 1] = s[i])
    BY <1>1, <1>2
<1>6. \A i, j \in DOMAIN Tail(s) : i < j => i + 1 < j + 1
    BY <1>2
<1>7. \A x : x \in Range(s) <=> x \in Range(Tail(s)) \/ x = Head(s)
  <2>1. \A x \in Range(Tail(s)) : x \in Range(s)
      BY <1>4 DEF Range
  <2>2. Head(s) \in Range(s)
      BY <1>1, <1>3 DEF Range
  <2>3. \A x \in Range(s) : x # Head(s) => x \in Range(Tail(s))
    <3> SUFFICES ASSUME NEW x \in Range(s), x # Head(s) PROVE x \in Range(Tail(s))
        OBVIOUS
    <3>1. PICK i \in DOMAIN s : s[i] = x
        BY DEF Range
    <3>2. i - 1 \in DOMAIN Tail(s) /\ Tail(s)[i - 1] = x
        BY <3>1, <1>1, <1>5
    <3> QED
        BY <3>2 DEF Range
  <2> QED
      BY <2>1, <2>2, <2>3
<1> QED
    BY <1>1, <1>3, <1>4, <1>5, <1>6, <1>7

\* Order is kept when the first element leaves, and when one that is above
\* all others comes last.
LEMMA AscendingTail ==
    ASSUME NEW S, NEW s \in Seq(S), s # <<>>, NEW rank, Ascending(s, rank)
    PROVE  Ascending(Tail(s), rank)
<1>1. \A i, j \in DOMAIN Tail(s) : i < j => i + 1 < j + 1
    BY TailFacts
<1>2. \A i \in DOMAIN Tail(s) : i + 1 \in DOMAIN s /\ Tail(s)[i] = s[i + 1]
    BY TailFacts
<1> QED
    BY <1>1, <1>2 DEF Ascending

LEMMA AscendingAppend ==
    ASSUME NEW S, NEW s \in Seq(S), NEW e \in S, NEW rank, Ascending(s, rank),
           \A i \in DOMAIN s : s[i] \in Invokes /\ e \in Invokes => rank[s[i]] < rank[e]
    PROVE  Ascending(Append(s, e), rank)
<1> DEFINE t == Append(s, e)
<1>1. /\ \A i \in DOMAIN s : t[i] = s[i]
      /\ \A i \in DOMAIN t : i \in DOMAIN s \/ i = Len(s) + 1
      /\ t[Len(s) + 1] = e
      /\ \A i \in DOMAIN s : i < Len(s) + 1
    BY AppendFacts
<1>2. \A i \in DOMAIN s : i \in Nat
    OBVIOUS
<1>3. Len(s) \in Nat
    OBVIOUS
<1> HIDE DEF t
<1> SUFFICES ASSUME NEW i \in DOMAIN t, NEW j \in DOMAIN t, i < j, t[i] \in Invokes, t[j] \in Invokes
             PROVE  rank[t[i]] < rank[t[j]]
    BY DEF Ascending, t
<1>4. i \in DOMAIN s
    BY <1>1, <1>2, <1>3
<1>5. CASE j \in DOMAIN s
    BY <1>1, <1>4, <1>5 DEF Ascending
<1>6. CASE j = Len(s) + 1
    BY <1>1, <1>4, <1>6
<1> QED
    BY <1>1, <1>5, <1>6

LEMMA BelowTail ==
    ASSUME NEW S, NEW s \in Seq(S), s # <<>>, NEW t, NEW rank
    PROVE  /\ Below(s, t, rank) => Below(Tail(s), t, rank)
           /\ Below(t, s, rank) => Below(t, Tail(s), rank)
<1>1. \A i \in DOMAIN Tail(s) : i + 1 \in DOMAIN s /\ Tail(s)[i] = s[i + 1]
    BY TailFacts
<1> QED
    BY <1>1 DEF Below

LEMMA BelowAppend ==
    ASSUME NEW S, NEW s \in Seq(S), NEW e \in S, NEW t, NEW rank
    PROVE  /\ Below(s, t, rank)
                /\ (\A j \in DOMAIN t : e \in Invokes /\ t[j] \in Invokes => rank[e] < rank[t[j]])
              => Below(Append(s, e), t, rank)
           /\ Below(t, s, rank)
                /\ (\A j \in DOMAIN t : e \in Invokes /\ t[j] \in Invokes => rank[t[j]] < rank[e])
              => Below(t, Append(s, e), rank)
<1>1. /\ \A i \in DOMAIN s : Append(s, e)[i] = s[i]
      /\ \A i \in DOMAIN Append(s, e) : i \in DOMAIN s \/ i = Len(s) + 1
      /\ Append(s, e)[Len(s) + 1] = e
    BY AppendFacts
<1> QED
    BY <1>1 DEF Below

-----------------------------------------------------------------------------
\* What the parts of the handlers leave alone

\* y is x after something that concerns neither references, handlers nor the
\* queue, and that starts no read or write.
Quiet(x, y) ==
    /\ y \in CxType /\ y.refs = x.refs /\ y.handlers = x.handlers /\ y.raced = x.raced
    /\ y.queue = x.queue
    /\ (y.reading => x.reading) /\ (x.shut => y.shut) /\ (y.writing => x.writing)

\* The same, with r references.
QuietBut(x, y, r) ==
    /\ y \in CxType /\ y.refs = r /\ y.handlers = x.handlers /\ y.raced = x.raced
    /\ y.queue = x.queue
    /\ (y.reading => x.reading) /\ (x.shut => y.shut) /\ (y.writing => x.writing)

LEMMA ArmedQuiet ==
    ASSUME NEW x \in CxType, NEW b \in BOOLEAN
    PROVE  LET y == [x EXCEPT !.armed = b]
           IN  Quiet(x, y) /\ y.shut = x.shut /\ y.reading = x.reading
BY DEF CxType, Quiet

LEMMA ResetTimerQuiet ==
    ASSUME NEW x \in CxType
    PROVE  Quiet(x, ResetTimer(x)) /\ ResetTimer(x).shut = x.shut /\ ResetTimer(x).reading = x.reading
<1>1. CASE x.shut
    BY <1>1, Zenon DEF ResetTimer, Quiet
<1>2. CASE ~x.shut
  <2>1. ResetTimer(x) = [x EXCEPT !.armed = TRUE]
      BY <1>2 DEF ResetTimer
  <2> QED
      BY <2>1, ArmedQuiet, Zenon
<1> QED
    BY <1>1, <1>2

LEMMA ShutdownQuiet ==
    ASSUME NEW x \in CxType, NEW a \in Closers \cup {"strand"}
    PROVE  Quiet(x, Shutdown(x, a))
<1>1. CASE x.shut
    BY <1>1 DEF Shutdown, Quiet
<1>2. CASE ~x.shut
  <2>1. \A t, f \in BOOLEAN : t => Quiet(x, [x EXCEPT !.shut = t, !.armed = f, !.releasing = a])
      BY ZenonT(30) DEF CxType, Quiet
  <2>2. Shutdown(x, a) = [x EXCEPT !.shut = TRUE, !.armed = FALSE, !.releasing = a]
      BY <1>2 DEF Shutdown
  <2> QED
      BY <2>1, <2>2, Zenon
<1> QED
    BY <1>1, <1>2

LEMMA RefusedQuiet ==
    ASSUME NEW x \in CxType
    PROVE  Quiet(x, Refused(x)) /\ ~Refused(x).reading
<1> DEFINE y == [x EXCEPT !.want = TRUE, !.reading = FALSE]
<1>1. y \in CxType /\ Quiet(x, y) /\ ~y.reading
    BY Zenon DEF CxType, Quiet
<1> HIDE DEF y
<1>2. Quiet(y, Shutdown(y, "strand"))
    BY <1>1, ShutdownQuiet
<1> QED
    BY <1>1, <1>2 DEF Refused, Quiet, y

LEMMA DoSendFields ==
    ASSUME NEW x \in CxType, NEW item \in Items
    PROVE  LET y == DoSend(x, item)
           IN  /\ y \in CxType /\ y.refs = x.refs /\ y.handlers = x.handlers /\ y.raced = x.raced
               /\ y.shut = x.shut /\ y.reading = x.reading
               /\ y.queue = Append(x.queue, item)
<1>1. CASE x.queue = <<>>
  <2> DEFINE r == ResetTimer(x)
  <2>1. r \in CxType /\ r.refs = x.refs /\ r.handlers = x.handlers /\ r.raced = x.raced
        /\ r.shut = x.shut /\ r.reading = x.reading
      BY ResetTimerQuiet DEF Quiet
  <2>2. <<item>> \in Seq(Items) /\ <<item>> = Append(x.queue, item)
      BY <1>1
  <2>3. DoSend(x, item) = [r EXCEPT !.queue = <<item>>, !.writing = TRUE]
      BY <1>1 DEF DoSend
  <2> HIDE DEF r
  <2> DEFINE y == [r EXCEPT !.queue = <<item>>, !.writing = TRUE]
  <2>4. /\ y \in CxType /\ y.refs = r.refs /\ y.handlers = r.handlers /\ y.raced = r.raced
        /\ y.shut = r.shut /\ y.reading = r.reading /\ y.queue = <<item>>
      BY <2>1, <2>2, Zenon DEF CxType
  <2> QED
      BY <2>1, <2>2, <2>3, <2>4
<1>2. CASE x.queue # <<>>
  <2>1. x.queue \in Seq(Items)
      BY DEF CxType
  <2>2. Append(x.queue, item) \in Seq(Items)
      BY <2>1
  <2>3. DoSend(x, item) = [x EXCEPT !.queue = Append(x.queue, item)]
      BY <1>2 DEF DoSend
  <2> QED
      BY <2>2, <2>3, Zenon DEF CxType
<1> QED
    BY <1>1, <1>2

-----------------------------------------------------------------------------
\* What a step has to show for each part of the invariant

\* Only call c changes.
LEMMA OnceStep ==
    ASSUME ConnTyped, Once, NEW c \in Callers, NEW k, calls' = [calls EXCEPT ![c] = k],
           c \in Invokes => OncePer(k, closer'[c]),
           \A d \in Invokes \ {c} : closer'[d] = closer[d]
    PROVE  Once'
<1>1. \A d \in Invokes : d \in Callers
    BY DEF Callers
<1>2. \A d \in Invokes : calls'[d] = IF d = c THEN k ELSE calls[d]
    BY <1>1 DEF ConnTyped
<1> QED
    BY <1>2 DEF Once

Runs(k)  == k.pc \in {"locked", "sent", "built", "leaving"}
Holds(k) == k.timer \in {"armed", "due"}

\* Call c becomes k, and the count becomes refs.
RefsFollow(c, k, refs) ==
    \/ Runs(k) = Runs(calls[c]) /\ Holds(k) = Holds(calls[c]) /\ refs = cx.refs
    \/ Runs(k) /\ ~Runs(calls[c]) /\ Holds(k) = Holds(calls[c]) /\ refs = cx.refs + 1
    \/ ~Runs(k) /\ Runs(calls[c]) /\ Holds(k) = Holds(calls[c]) /\ refs = cx.refs - 1
    \/ Runs(k) = Runs(calls[c]) /\ c \in Invokes /\ Holds(k) /\ ~Holds(calls[c]) /\ refs = cx.refs + 1
    \/ Runs(k) = Runs(calls[c]) /\ c \in Invokes /\ ~Holds(k) /\ Holds(calls[c]) /\ refs = cx.refs - 1

LEMMA PairedStep ==
    ASSUME ConnTyped, ReferencesArePaired, NEW c \in Callers, NEW k,
           calls' = [calls EXCEPT ![c] = k], RefsFollow(c, k, cx'.refs)
    PROVE  ReferencesArePaired'
<1> DEFINE R == {d \in Callers : Runs(calls[d])}
           H == {d \in Invokes : Holds(calls[d])}
           R1 == {d \in Callers : Runs(calls'[d])}
           H1 == {d \in Invokes : Holds(calls'[d])}
<1>1. IsFiniteSet(Callers) /\ Invokes \subseteq Callers
    BY CallersAreFinite, FS_Union, Zenon DEF Callers
<1>2. IsFiniteSet(R) /\ IsFiniteSet(H) /\ Cardinality(R) \in Nat /\ Cardinality(H) \in Nat
    BY <1>1, CallersAreFinite, FS_Subset, FS_CardinalityType
<1>3. cx.refs = Cardinality(R) + Cardinality(H)
    BY DEF ReferencesArePaired, Runs, Holds
<1>4. \A d \in Callers : calls'[d] = IF d = c THEN k ELSE calls[d]
    BY DEF ConnTyped
<1>5. Runs(k) = Runs(calls[c]) => R1 = R
    BY <1>4
<1>6. Holds(k) = Holds(calls[c]) => H1 = H
    BY <1>1, <1>4
<1>7. Runs(k) /\ ~Runs(calls[c]) => Cardinality(R1) = Cardinality(R) + 1
  <2> SUFFICES ASSUME Runs(k), ~Runs(calls[c]) PROVE Cardinality(R1) = Cardinality(R) + 1
      OBVIOUS
  <2>1. R1 = R \cup {c} /\ c \notin R
      BY <1>4
  <2> HIDE DEF R, R1
  <2> QED
      BY <2>1, <1>2, FS_AddElement, Zenon
<1>8. ~Runs(k) /\ Runs(calls[c]) => Cardinality(R1) = Cardinality(R) - 1
  <2> SUFFICES ASSUME ~Runs(k), Runs(calls[c]) PROVE Cardinality(R1) = Cardinality(R) - 1
      OBVIOUS
  <2>1. R1 = R \ {c} /\ c \in R
      BY <1>4
  <2> HIDE DEF R, R1
  <2> QED
      BY <2>1, <1>2, FS_RemoveElement, Zenon
<1>9. c \in Invokes /\ Holds(k) /\ ~Holds(calls[c]) => Cardinality(H1) = Cardinality(H) + 1
  <2> SUFFICES ASSUME c \in Invokes, Holds(k), ~Holds(calls[c]) PROVE Cardinality(H1) = Cardinality(H) + 1
      OBVIOUS
  <2>1. H1 = H \cup {c} /\ c \notin H
      BY <1>1, <1>4
  <2> HIDE DEF H, H1
  <2> QED
      BY <2>1, <1>2, FS_AddElement, Zenon
<1>10. c \in Invokes /\ ~Holds(k) /\ Holds(calls[c]) => Cardinality(H1) = Cardinality(H) - 1
  <2> SUFFICES ASSUME c \in Invokes, ~Holds(k), Holds(calls[c]) PROVE Cardinality(H1) = Cardinality(H) - 1
      OBVIOUS
  <2>1. H1 = H \ {c} /\ c \in H
      BY <1>1, <1>4
  <2> HIDE DEF H, H1
  <2> QED
      BY <2>1, <1>2, FS_RemoveElement, Zenon
<1>11. cx'.refs = Cardinality(R1) + Cardinality(H1)
  <2> HIDE DEF R, R1, H, H1
  <2> QED
      BY <1>2, <1>3, <1>5, <1>6, <1>7, <1>8, <1>9, <1>10 DEF RefsFollow
<1> QED
    BY <1>11 DEF ReferencesArePaired, Runs, Holds

\* The order of what is under way.
SeqsRanked(rank) ==
    /\ Ascending(wire.inbox, rank) /\ Ascending(wire.asked, rank) /\ Ascending(cx.queue, rank)
    /\ Below(wire.inbox, wire.asked, rank) /\ Below(wire.inbox, cx.queue, rank)
    /\ Below(wire.asked, cx.queue, rank)

\* Call k of c becomes l: it is not sent, no longer-gone timer comes back, and
\* what it is given is its own.
CallMoves(k, l, c) ==
    /\ l.pc \in {"sent", "built"} => k.pc \in {"sent", "built"}
    /\ l.pc \in {"idle", "found", "failed", "locked"} => k.pc \in {"idle", "found", "failed", "locked"}
    /\ CancelTimer(l) => CancelTimer(k) \/ k.pc \in {"sent", "built"}
    /\ \A i \in DOMAIN l.got : l.got[i] \in Invokes \ {c} => cx.raced

\* Calls go on, and no request or answer overtakes another.
LEMMA OrderStep ==
    ASSUME ConnTyped, Ordered, cx'.raced = cx.raced, cx'.handlers \in {cx.handlers, <<>>},
           Listening' => Listening,
           \A rank \in [Invokes -> Nat] : SeqsRanked(rank) => SeqsRanked(rank)',
           \A c \in Invokes : c \in Flight' => c \in Flight,
           Listening' => \A c \in Invokes : c \in Flight => c \in Flight',
           \A c \in Invokes : CallMoves(calls[c], calls'[c], c)
    PROVE  Ordered'
<1>1. cx.handlers \in Seq(Invokes)
    BY DEF ConnTyped, CxType
<1>2. PICK rank \in [Invokes -> Nat], n \in Nat : RankedBy(rank, n)
    BY DEF Ordered, Ranked
<1>3. DOMAIN <<>> = {} /\ Range(<<>>) = {}
    BY DEF Range
<1>4. \A i \in DOMAIN cx'.handlers : cx'.handlers = cx.handlers
    BY <1>3
<1>5. RankedBy(rank, n)'
  <2>1. SeqsRanked(rank)'
      BY <1>2 DEF RankedBy, SeqsRanked
  <2>2. ~cx.raced => Ascending(cx'.handlers, rank)
      BY <1>2, <1>4 DEF RankedBy, Ascending
  <2>3. ASSUME ~cx.raced, NEW i \in DOMAIN cx'.handlers, NEW c \in Invokes, calls'[c].pc \in {"sent", "built"}
        PROVE  rank[cx'.handlers[i]] < rank[c]
      BY <2>3, <1>2, <1>4 DEF RankedBy, CallMoves
  <2> QED
      BY <1>2, <2>1, <2>2, <2>3 DEF RankedBy, SeqsRanked
<1>6. Ranked'
    BY <1>5 DEF Ranked
<1>7. OwnAnswer'
    BY DEF OwnAnswer, CallMoves
<1>8. \A c \in Unsent' : c \notin Flight' /\ c \notin Range(cx'.handlers)
  <2> SUFFICES ASSUME NEW c \in Invokes, calls'[c].pc \in {"idle", "found", "failed", "locked"}
               PROVE  c \notin Flight' /\ c \notin Range(cx'.handlers)
      BY DEF Unsent
  <2>1. c \in Unsent
      BY DEF Unsent, CallMoves
  <2> QED
      BY <2>1, <1>3 DEF Ordered
<1>9. Awaited'
  <2> SUFFICES ASSUME Listening', ~cx'.raced
               PROVE  /\ \A c \in Invokes : calls'[c].pc \in {"sent", "built"} => c \in Flight'
                      /\ cx'.handlers # <<>> /\ CancelTimer(calls'[Head(cx'.handlers)]) =>
                            Range(cx'.handlers) \subseteq Flight'
      BY DEF Awaited
  <2>1. \A c \in Invokes : calls'[c].pc \in {"sent", "built"} => c \in Flight'
      BY DEF Ordered, Awaited, CallMoves
  <2>2. ASSUME cx'.handlers # <<>>, CancelTimer(calls'[Head(cx'.handlers)])
        PROVE  Range(cx'.handlers) \subseteq Flight'
    <3> DEFINE h == Head(cx.handlers)
    <3>1. /\ cx'.handlers = cx.handlers /\ cx.handlers # <<>> /\ h \in Invokes
          /\ h = cx.handlers[1] /\ 1 \in DOMAIN cx.handlers
        BY <2>2, <1>1, TailFacts
    <3>2. CancelTimer(calls'[h])
        BY <2>2, <3>1
    <3> HIDE DEF h
    <3>3. calls[h].pc \notin {"sent", "built"}
      <4>1. rank[h] \in Nat
          BY <3>1
      <4>2. calls[h].pc \in {"sent", "built"} => rank[h] < rank[h]
          BY <3>1, <1>2 DEF RankedBy
      <4> QED
          BY <4>1, <4>2
    <3>4. CancelTimer(calls[h])
        BY <3>1, <3>2, <3>3 DEF CallMoves
    <3>5. Range(cx.handlers) \subseteq Flight
        BY <3>1, <3>4 DEF Ordered, Awaited, h
    <3>6. Range(cx.handlers) \subseteq Invokes
        BY <1>1 DEF Range
    <3> QED
        BY <3>1, <3>5, <3>6
  <2> QED
      BY <2>1, <2>2
<1> QED
    BY <1>6, <1>7, <1>8, <1>9 DEF Ordered

\* Nothing under way moves.
LEMMA SameFlight ==
    ASSUME cx'.queue = cx.queue, wire'.inbox = wire.inbox, wire'.asked = wire.asked
    PROVE  /\ \A rank \in [Invokes -> Nat] : SeqsRanked(rank) => SeqsRanked(rank)'
           /\ Flight' = Flight
<1>1. Flight' = Flight
    BY DEF Flight
<1>2. \A rank \in [Invokes -> Nat] : SeqsRanked(rank) => SeqsRanked(rank)'
    BY DEF SeqsRanked
<1> QED
    BY <1>1, <1>2

ClosersTyped(cl) == cl \in [Closers -> {"off", "found", "empty", "queued", "done", "erased"}]

\* A step that concerns neither calls nor what is under way.
LEMMA QuietStep ==
    ASSUME ConnInv, Quiet(cx, cx'), UNCHANGED <<calls, wire>>, ClosersTyped(closer'),
           \A c \in Invokes : (closer'[c] = "off") <=> (closer[c] = "off")
    PROVE  ConnInv'
<1>1. ConnTyped'
    BY DEF ConnInv, ConnTyped, Quiet, ClosersTyped
<1>2. Once'
    BY DEF ConnInv, Once, OncePer
<1>3. ReferencesArePaired'
    BY DEF ConnInv, ReferencesArePaired, Quiet
<1>4. Ordered'
  <2>1. \A c \in Invokes : CallMoves(calls[c], calls'[c], c)
      BY DEF ConnInv, Ordered, OwnAnswer, CallMoves
  <2>2. Listening' => Listening
      BY DEF Listening, Quiet
  <2>3. /\ cx'.raced = cx.raced /\ cx'.handlers \in {cx.handlers, <<>>}
        /\ cx'.queue = cx.queue /\ wire'.inbox = wire.inbox /\ wire'.asked = wire.asked
      BY DEF Quiet
  <2>4. /\ \A rank \in [Invokes -> Nat] : SeqsRanked(rank) => SeqsRanked(rank)'
        /\ Flight' = Flight
      BY <2>3, SameFlight
  <2> QED
      BY <2>1, <2>2, <2>3, <2>4, OrderStep DEF ConnInv
<1> QED
    BY <1>1, <1>2, <1>3, <1>4 DEF ConnInv

\* A step of one call that sends nothing and adds no handler.
LEMMA CallStep ==
    ASSUME ConnInv, NEW c \in Callers, NEW k \in CallType, calls' = [calls EXCEPT ![c] = k],
           NEW r \in Int, QuietBut(cx, cx', r), wire' = wire, ClosersTyped(closer'),
           \A d \in Invokes \ {c} : closer'[d] = closer[d],
           c \in Invokes => OncePer(k, closer'[c]) /\ CallMoves(calls[c], k, c),
           RefsFollow(c, k, r)
    PROVE  ConnInv'
<1>2. /\ cx' \in CxType /\ cx'.refs = r /\ cx'.handlers = cx.handlers /\ cx'.raced = cx.raced
      /\ cx'.queue = cx.queue /\ (cx'.reading => cx.reading) /\ (cx.shut => cx'.shut)
      /\ (cx'.writing => cx.writing)
    BY DEF QuietBut
<1>3. ConnTyped'
    BY <1>2 DEF ConnInv, ConnTyped, ClosersTyped
<1>4. Once'
    BY OnceStep, Zenon DEF ConnInv
<1>5. ReferencesArePaired'
    BY <1>2, PairedStep, Zenon DEF ConnInv
<1>6. Ordered'
  <2>1. \A d \in Invokes : CallMoves(calls[d], calls'[d], d)
    <3>1. \A d \in Invokes : calls'[d] = IF d = c THEN k ELSE calls[d]
        BY DEF ConnInv, ConnTyped, Callers
    <3>2. \A d \in Invokes : CallMoves(calls[d], calls[d], d)
        BY DEF ConnInv, Ordered, OwnAnswer, CallMoves
    <3> QED
        BY <3>1, <3>2
  <2>2. Listening' => Listening
      BY <1>2 DEF Listening
  <2>3. /\ \A rank \in [Invokes -> Nat] : SeqsRanked(rank) => SeqsRanked(rank)'
        /\ Flight' = Flight
      BY <1>2, SameFlight
  <2> QED
      BY <1>2, <2>1, <2>2, <2>3, OrderStep DEF ConnInv
<1> QED
    BY <1>3, <1>4, <1>5, <1>6 DEF ConnInv

\* The callback is given a word that is no answer.
LEMMA WordMoves ==
    ASSUME ConnInv, NEW c \in Invokes, NEW word \in {"error", "destroyed", "timedout"},
           NEW l \in CallType, l.got = Append(calls[c].got, word) \/ l.got = calls[c].got
    PROVE  \A i \in DOMAIN l.got : l.got[i] \in Invokes \ {c} => cx.raced
<1>1. calls[c].got \in Seq(Results) /\ word \in Results /\ word \notin Invokes
    BY InvokesAreNoWords DEF ConnInv, ConnTyped, CallType, Callers, Results
<1>2. \A i \in DOMAIN calls[c].got : calls[c].got[i] \in Invokes \ {c} => cx.raced
    BY DEF ConnInv, Ordered, OwnAnswer
<1> DEFINE g == Append(calls[c].got, word)
<1>3. /\ \A i \in DOMAIN calls[c].got : g[i] = calls[c].got[i]
      /\ \A i \in DOMAIN g : i \in DOMAIN calls[c].got \/ i = Len(calls[c].got) + 1
      /\ g[Len(calls[c].got) + 1] = word
    BY <1>1, AppendFacts
<1> HIDE DEF g
<1>4. CASE l.got = g
    BY <1>1, <1>2, <1>3, <1>4
<1>5. CASE l.got = calls[c].got
    BY <1>2, <1>5
<1> QED
    BY <1>4, <1>5 DEF g

-----------------------------------------------------------------------------
\* Callers

LEMMA CallIsTyped ==
    ASSUME ConnInv, NEW c \in Callers
    PROVE  calls[c] \in CallType /\ (c \in Invokes => OncePer(calls[c], closer[c]))
           /\ cx \in CxType /\ ClosersTyped(closer) /\ cx.refs \in Int
BY DEF ConnInv, ConnTyped, Once, ClosersTyped, CxType

LEMMA PcFields ==
    ASSUME NEW k \in CallType, NEW to \in Pcs
    PROVE  LET l == [k EXCEPT !.pc = to]
           IN  l \in CallType /\ l.pc = to /\ l.timer = k.timer /\ l.tried = k.tried /\ l.got = k.got
BY DEF CallType

\* Two results of a callback.
LEMMA CallBackFields ==
    ASSUME NEW k \in CallType, NEW r \in Results
    PROVE  /\ CallBack(k, r) \in CallType /\ CallBack(k, r).pc = k.pc
           /\ CallBack(k, r).timer = k.timer /\ CallBack(k, r).tried = k.tried
           /\ CallBack(k, r).got = Append(k.got, r)
           /\ k.got = <<>> => Len(Append(k.got, r)) = 1
<1>1. k.got \in Seq(Results)
    BY DEF CallType
<1>2. Append(k.got, r) \in Seq(Results) /\ Len(Append(k.got, r)) = Len(k.got) + 1
    BY <1>1
<1>3. CallBack(k, r) = [k EXCEPT !.got = Append(k.got, r)]
    BY DEF CallBack
<1>4. \A g \in Seq(Results) : LET l == [k EXCEPT !.got = g]
                              IN  l \in CallType /\ l.pc = k.pc /\ l.timer = k.timer
                                  /\ l.tried = k.tried /\ l.got = g
    BY DEF CallType
<1>5. k.got = <<>> => Len(Append(k.got, r)) = 1
    BY <1>2
<1> QED
    BY <1>2, <1>3, <1>4, <1>5, Zenon

\* The caller learns that the call has failed.
LEMMA FailedFields ==
    ASSUME NEW k \in CallType, k.got = <<>>, NEW word \in Results
    PROVE  LET l == CallBack([k EXCEPT !.pc = "leaving"], word)
           IN  l \in CallType /\ l.pc = "leaving" /\ l.timer = k.timer /\ l.tried = k.tried
               /\ l.got = Append(k.got, word) /\ Len(l.got) = 1
<1> DEFINE m == [k EXCEPT !.pc = "leaving"]
<1>1. m \in CallType /\ m.pc = "leaving" /\ m.timer = k.timer /\ m.tried = k.tried /\ m.got = k.got
    BY DEF CallType, Pcs
<1> HIDE DEF m
<1>2. /\ CallBack(m, word) \in CallType /\ CallBack(m, word).pc = m.pc
      /\ CallBack(m, word).timer = m.timer /\ CallBack(m, word).tried = m.tried
      /\ CallBack(m, word).got = Append(m.got, word) /\ Len(Append(m.got, word)) = 1
    BY <1>1, CallBackFields
<1> QED
    BY <1>1, <1>2, Zenon DEF m

\* A caller goes on, and its timer, if any, is as before.
LEMMA GoesStep ==
    ASSUME ConnInv, NEW c \in Callers, NEW to \in Pcs, calls' = [calls EXCEPT ![c].pc = to],
           \/ calls[c].pc \in {"idle", "found"} /\ to \in {"found", "locked", "failed"}
           \/ calls[c].pc \in {"locked", "leaving"} /\ to \in {"leaving", "done"},
           NEW r \in Int, QuietBut(cx, cx', r), UNCHANGED <<closer, wire>>,
           r = cx.refs + (IF to = "locked" THEN 1 ELSE IF to = "done" THEN -1 ELSE 0)
    PROVE  ConnInv'
<1> DEFINE k == [calls[c] EXCEPT !.pc = to]
<1>1. calls[c] \in CallType /\ (c \in Invokes => OncePer(calls[c], closer[c])) /\ ClosersTyped(closer)
    BY CallIsTyped
<1>2. /\ k \in CallType /\ k.pc = to /\ k.timer = calls[c].timer /\ k.tried = calls[c].tried
      /\ k.got = calls[c].got
    BY <1>1, PcFields
<1>3. calls' = [calls EXCEPT ![c] = k]
    OBVIOUS
<1> HIDE DEF k
<1>4. c \in Invokes => OncePer(k, closer'[c])
    BY <1>1, <1>2 DEF OncePer
<1>5. c \in Invokes => CallMoves(calls[c], k, c)
  <2>1. c \in Invokes => \A i \in DOMAIN k.got : k.got[i] \in Invokes \ {c} => cx.raced
      BY <1>2 DEF ConnInv, Ordered, OwnAnswer
  <2> QED
      BY <1>2, <2>1 DEF CallMoves, CancelTimer
<1>6. RefsFollow(c, k, r)
  <2>1. Holds(k) = Holds(calls[c])
      BY <1>2 DEF Holds
  <2>2. cx.refs \in Int
      BY CallIsTyped
  <2>3. CASE to \in {"found", "failed"}
      BY <1>2, <2>1, <2>2, <2>3 DEF Runs, RefsFollow
  <2>4. CASE to = "locked"
      BY <1>2, <2>1, <2>2, <2>4 DEF Runs, RefsFollow
  <2>5. CASE to = "leaving"
      BY <1>2, <2>1, <2>2, <2>5 DEF Runs, RefsFollow
  <2>6. CASE to = "done" /\ calls[c].pc \in {"locked", "leaving"}
      BY <1>2, <2>1, <2>2, <2>6 DEF Runs, RefsFollow
  <2> QED
      BY <2>3, <2>4, <2>5, <2>6
<1> QED
    BY <1>1, <1>2, <1>3, <1>4, <1>5, <1>6, CallStep, Zenon

LEMMA RefsField ==
    ASSUME NEW x \in CxType, NEW r \in Int
    PROVE  QuietBut(x, [x EXCEPT !.refs = r], r) /\ QuietBut(x, x, x.refs)
BY DEF CxType, QuietBut

LEMMA FindConnectionStep ==
    ASSUME ConnInv, NEW c \in Callers, FindConnection(c)
    PROVE  ConnInv'
<1>1. calls[c].pc = "idle" /\ UNCHANGED <<cx, closer, wire>>
    BY DEF FindConnection, Goes
<1>2. QuietBut(cx, cx', cx.refs) /\ cx.refs \in Int
    BY <1>1, CallIsTyped, RefsField, Zenon
<1>3. \/ calls' = [calls EXCEPT ![c].pc = "found"]
      \/ calls' = [calls EXCEPT ![c].pc = "failed"]
    BY Zenon DEF FindConnection, Goes
<1>4. "found" \in Pcs /\ "failed" \in Pcs /\ cx.refs = cx.refs + 0
    BY <1>2 DEF Pcs
<1> QED
    BY <1>1, <1>2, <1>3, <1>4, GoesStep

LEMMA LockConnectionStep ==
    ASSUME ConnInv, NEW c \in Callers, LockConnection(c)
    PROVE  ConnInv'
<1>1. calls[c].pc = "found" /\ UNCHANGED <<closer, wire>> /\ cx \in CxType /\ cx.refs \in Int
    BY CallIsTyped DEF LockConnection, Goes
<1>2. "locked" \in Pcs /\ "failed" \in Pcs /\ cx.refs = cx.refs + 0 /\ cx.refs + 1 \in Int
    BY <1>1 DEF Pcs
<1>3. CASE calls' = [calls EXCEPT ![c].pc = "locked"] /\ cx' = [cx EXCEPT !.refs = cx.refs + 1]
  <2>1. QuietBut(cx, cx', cx.refs + 1)
      BY <1>1, <1>2, <1>3, RefsField
  <2> QED
      BY <1>1, <1>2, <1>3, <2>1, GoesStep, Zenon
<1>4. CASE calls' = [calls EXCEPT ![c].pc = "failed"] /\ cx' = cx
  <2>1. QuietBut(cx, cx', cx.refs)
      BY <1>1, <1>2, <1>4, RefsField, Zenon
  <2> QED
      BY <1>1, <1>2, <1>4, <2>1, GoesStep, Zenon
<1> QED
    BY <1>3, <1>4 DEF LockConnection, Goes

LEMMA LeaveCallStep ==
    ASSUME ConnInv, NEW c \in Callers, LeaveCall(c)
    PROVE  ConnInv'
<1>1. /\ calls[c].pc = "leaving" /\ UNCHANGED <<closer, wire>> /\ cx \in CxType /\ cx.refs \in Int
      /\ calls' = [calls EXCEPT ![c].pc = "done"] /\ cx' = [cx EXCEPT !.refs = cx.refs - 1]
    BY CallIsTyped DEF LeaveCall, Goes, FinishOuterCall
<1>2. "done" \in Pcs /\ cx.refs - 1 \in Int /\ cx.refs - 1 = cx.refs + (-1)
    BY <1>1 DEF Pcs
<1>3. QuietBut(cx, cx', cx.refs - 1)
    BY <1>1, <1>2, RefsField
<1> QED
    BY <1>1, <1>2, <1>3, GoesStep, Zenon

LEMMA RequestCallbackStep ==
    ASSUME ConnInv, NEW c \in Callers, RequestCallback(c)
    PROVE  ConnInv'
<1>1. /\ calls[c].pc = "locked" /\ UNCHANGED <<closer, wire>> /\ cx \in CxType /\ cx.refs \in Int
      /\ calls' = [calls EXCEPT ![c].pc = "leaving"] /\ cx' = [cx EXCEPT !.posted = TRUE]
    BY CallIsTyped DEF RequestCallback, Goes
<1>2. "leaving" \in Pcs /\ cx.refs = cx.refs + 0
    BY <1>1 DEF Pcs
<1>3. QuietBut(cx, cx', cx.refs)
  <2>1. \A t \in BOOLEAN : QuietBut(cx, [cx EXCEPT !.posted = t], cx.refs)
      BY <1>1, Zenon DEF CxType, QuietBut
  <2> QED
      BY <1>1, <2>1, Zenon
<1> QED
    BY <1>1, <1>2, <1>3, GoesStep, Zenon

\* Something is queued that is no request; a caller that sent it goes on.
LEMMA WordQueued ==
    ASSUME ConnInv, NEW item \in {"note", "answer"}, cx'.queue = Append(cx.queue, item),
           wire'.asked = wire.asked,
           \A rank : Ascending(wire.inbox, rank) => Ascending(wire'.inbox, rank),
           \A rank, t : Below(wire.inbox, t, rank) => Below(wire'.inbox, t, rank),
           Range(wire'.inbox) \cap Invokes = Range(wire.inbox) \cap Invokes
    PROVE  /\ \A rank \in [Invokes -> Nat] : SeqsRanked(rank) => SeqsRanked(rank)'
           /\ \A c \in Invokes : c \in Flight' <=> c \in Flight
<1>1. /\ item \notin Invokes /\ item \in Items /\ cx.queue \in Seq(Items)
    BY InvokesAreNoWords DEF ConnInv, ConnTyped, CxType, Items
<1>2. Range(cx'.queue) = Range(cx.queue) \cup {item}
    BY <1>1, AppendFacts
<1>3. \A c \in Invokes : c \in Flight' <=> c \in Flight
    BY <1>1, <1>2 DEF Flight
<1>4. ASSUME NEW rank \in [Invokes -> Nat], SeqsRanked(rank) PROVE SeqsRanked(rank)'
  <2>1. Ascending(Append(cx.queue, item), rank)
      BY <1>1, <1>4, AscendingAppend DEF SeqsRanked
  <2>2. \A t : Below(t, cx.queue, rank) => Below(t, Append(cx.queue, item), rank)
      BY <1>1, BelowAppend
  <2> QED
      BY <1>4, <2>1, <2>2 DEF SeqsRanked
<1> QED
    BY <1>3, <1>4

LEMMA NotifySendStep ==
    ASSUME ConnInv, NEW c \in Callers, NotifySend(c)
    PROVE  ConnInv'
<1>1. /\ calls[c].pc = "locked" /\ UNCHANGED <<closer, wire>> /\ cx \in CxType /\ cx.refs \in Int
      /\ calls' = [calls EXCEPT ![c].pc = "leaving"] /\ calls[c] \in CallType /\ ClosersTyped(closer)
      /\ (c \in Invokes => OncePer(calls[c], closer[c])) /\ cx.queue \in Seq(Items)
    BY CallIsTyped DEF NotifySend, Goes, CxType
<1>2. "leaving" \in Pcs /\ cx.refs = cx.refs + 0 /\ "note" \in Items
    BY <1>1 DEF Pcs, Items
<1>3. CASE cx' = cx
    BY <1>1, <1>2, <1>3, RefsField, GoesStep, Zenon
<1>4. CASE cx' = DoSend(cx, "note")
  <2> DEFINE k == [calls[c] EXCEPT !.pc = "leaving"]
  <2>1. /\ cx' \in CxType /\ cx'.refs = cx.refs /\ cx'.handlers = cx.handlers /\ cx'.raced = cx.raced
        /\ cx'.shut = cx.shut /\ cx'.reading = cx.reading
        /\ cx'.queue = Append(cx.queue, "note")
      BY <1>1, <1>2, <1>4, DoSendFields, Zenon
  <2>2. /\ k \in CallType /\ k.pc = "leaving" /\ k.timer = calls[c].timer /\ k.tried = calls[c].tried
        /\ k.got = calls[c].got /\ calls' = [calls EXCEPT ![c] = k]
      BY <1>1, <1>2, PcFields
  <2> HIDE DEF k
  <2>3. ConnTyped'
      BY <1>1, <1>2, <2>1, <2>2, AppendFacts DEF ConnInv, ConnTyped, ClosersTyped
  <2>4. Once'
      BY <1>1, <2>2, OnceStep, Zenon DEF ConnInv, OncePer
  <2>5. ReferencesArePaired'
    <3>1. RefsFollow(c, k, cx'.refs)
        BY <1>1, <2>1, <2>2 DEF RefsFollow, Runs, Holds
    <3> QED
        BY <2>2, <3>1, PairedStep, Zenon DEF ConnInv
  <2>6. Ordered'
    <3>1. \A d \in Invokes : CallMoves(calls[d], calls'[d], d)
      <4>1. \A d \in Invokes : calls'[d] = IF d = c THEN k ELSE calls[d]
          BY <2>2 DEF ConnInv, ConnTyped, Callers
      <4> QED
          BY <1>1, <2>2, <4>1 DEF ConnInv, Ordered, OwnAnswer, CallMoves, CancelTimer
    <3>2. /\ \A rank \in [Invokes -> Nat] : SeqsRanked(rank) => SeqsRanked(rank)'
          /\ \A d \in Invokes : d \in Flight' <=> d \in Flight
        BY <1>1, <2>1, WordQueued
    <3>3. Listening' => Listening
        BY <2>1 DEF Listening
    <3> QED
        BY <2>1, <3>1, <3>2, <3>3, OrderStep DEF ConnInv
  <2> QED
      BY <2>3, <2>4, <2>5, <2>6 DEF ConnInv
<1> QED
    BY <1>3, <1>4 DEF NotifySend

\* Giving c a new number does not concern sequences without it.
LEMMA RankElsewhere ==
    ASSUME NEW rank \in [Invokes -> Nat], NEW c \in Invokes, NEW v \in Nat
    PROVE  LET rank2 == [rank EXCEPT ![c] = v]
           IN  /\ \A s : c \notin Range(s) /\ Ascending(s, rank) => Ascending(s, rank2)
               /\ \A s, t : c \notin Range(s) /\ c \notin Range(t) /\ Below(s, t, rank)
                                => Below(s, t, rank2)
<1> DEFINE rank2 == [rank EXCEPT ![c] = v]
<1>1. \A d \in Invokes : d # c => rank2[d] = rank[d]
    OBVIOUS
<1>2. \A s : c \notin Range(s) => \A i \in DOMAIN s : s[i] # c
    BY DEF Range
<1> HIDE DEF rank2
<1>3. \A s : c \notin Range(s) /\ Ascending(s, rank) => Ascending(s, rank2)
    BY <1>1, <1>2 DEF Ascending
<1>4. \A s, t : c \notin Range(s) /\ c \notin Range(t) /\ Below(s, t, rank) => Below(s, t, rank2)
    BY <1>1, <1>2 DEF Below
<1> QED
    BY <1>3, <1>4, Zenon DEF rank2

\* The send: the request is the last one queued.
LEMMA SendOrdered ==
    ASSUME ConnInv, NEW c \in Invokes, calls[c].pc = "locked",
           calls' = [calls EXCEPT ![c].pc = "sent"], cx' = DoSend(cx, c), wire' = wire
    PROVE  Ordered'
<1>1. /\ cx \in CxType /\ cx.queue \in Seq(Items) /\ c \in Items /\ c \in Callers
      /\ cx.handlers \in Seq(Invokes) /\ wire.inbox \in Seq(Arrives) /\ wire.asked \in Seq(Invokes)
    BY DEF ConnInv, ConnTyped, CxType, WireType, Items, Callers
<1>2. /\ cx'.handlers = cx.handlers /\ cx'.raced = cx.raced
      /\ cx'.shut = cx.shut /\ cx'.reading = cx.reading /\ cx'.queue = Append(cx.queue, c)
    BY <1>1, DoSendFields, Zenon
<1>3. c \in Unsent /\ c \notin Flight /\ c \notin Range(cx.handlers)
    BY DEF ConnInv, Ordered, Unsent
<1>4. c \notin Range(wire.inbox) /\ c \notin Range(wire.asked) /\ c \notin Range(cx.queue)
    BY <1>3 DEF Flight
<1>5. Range(cx'.queue) = Range(cx.queue) \cup {c}
    BY <1>1, <1>2, AppendFacts
<1>6. Flight' = Flight \cup {c}
    BY <1>5 DEF Flight
<1>7. \A d \in Invokes : /\ calls'[d].pc = IF d = c THEN "sent" ELSE calls[d].pc
                         /\ calls'[d].got = calls[d].got /\ calls'[d].timer = calls[d].timer
                         /\ calls'[d].tried = calls[d].tried
  <2>1. calls \in [Callers -> CallType] /\ Invokes \subseteq Callers
      BY DEF ConnInv, ConnTyped, Callers
  <2> DEFINE k == [calls[c] EXCEPT !.pc = "sent"]
  <2>2. k.pc = "sent" /\ k.got = calls[c].got /\ k.timer = calls[c].timer /\ k.tried = calls[c].tried
      BY <2>1, <1>1, PcFields DEF Pcs
  <2>3. calls' = [calls EXCEPT ![c] = k]
      OBVIOUS
  <2> HIDE DEF k
  <2> QED
      BY <2>1, <2>2, <2>3
<1>8. Ranked'
  <2>1. PICK rank \in [Invokes -> Nat], n \in Nat : RankedBy(rank, n)
      BY DEF ConnInv, Ordered, Ranked
  <2> DEFINE rank2 == [rank EXCEPT ![c] = n + 1]
  <2>2. /\ rank2 \in [Invokes -> Nat] /\ n + 1 \in Nat /\ rank2[c] = n + 1
        /\ \A d \in Invokes : d # c => rank2[d] = rank[d] /\ rank[d] <= n /\ rank2[d] < rank2[c]
        /\ \A d \in Invokes : rank2[d] <= n + 1
      BY <2>1 DEF RankedBy
  <2>3. /\ \A s : c \notin Range(s) /\ Ascending(s, rank) => Ascending(s, rank2)
        /\ \A s, t : c \notin Range(s) /\ c \notin Range(t) /\ Below(s, t, rank) => Below(s, t, rank2)
      BY <2>2, RankElsewhere, Zenon
  <2> HIDE DEF rank2
  <2>4. /\ Ascending(wire.inbox, rank2) /\ Ascending(wire.asked, rank2) /\ Ascending(cx.queue, rank2)
        /\ Below(wire.inbox, wire.asked, rank2) /\ Below(wire.inbox, cx.queue, rank2)
        /\ Below(wire.asked, cx.queue, rank2)
      BY <1>4, <2>1, <2>3 DEF RankedBy
  <2>5. \A s : c \notin Range(s) => \A i \in DOMAIN s : s[i] \in Invokes => rank2[s[i]] < rank2[c]
      BY <2>2 DEF Range
  <2>6. Ascending(cx'.queue, rank2)
      BY <1>1, <1>2, <1>4, <2>4, <2>5, AscendingAppend
  <2>7. Below(wire.inbox, cx'.queue, rank2) /\ Below(wire.asked, cx'.queue, rank2)
      BY <1>1, <1>2, <1>4, <2>4, <2>5, BelowAppend
  <2>8. ASSUME ~cx'.raced
        PROVE  /\ Ascending(cx'.handlers, rank2)
               /\ \A i \in DOMAIN cx'.handlers, d \in Invokes :
                     calls'[d].pc \in {"sent", "built"} => rank2[cx'.handlers[i]] < rank2[d]
    <3>1. Ascending(cx'.handlers, rank2)
        BY <2>8, <1>2, <1>3, <2>1, <2>3 DEF RankedBy
    <3>2. ASSUME NEW i \in DOMAIN cx.handlers, NEW d \in Invokes, calls'[d].pc \in {"sent", "built"}
          PROVE  rank2[cx.handlers[i]] < rank2[d]
      <4>1. cx.handlers[i] \in Invokes /\ cx.handlers[i] # c
          BY <1>1, <1>3 DEF Range
      <4>2. CASE d = c
          BY <4>1, <4>2, <2>2
      <4>3. CASE d # c
        <5>1. calls[d].pc \in {"sent", "built"}
            BY <3>2, <4>3, <1>7
        <5>2. rank[cx.handlers[i]] < rank[d]
            BY <5>1, <2>1, <2>8, <1>2 DEF RankedBy
        <5> QED
            BY <4>1, <4>3, <5>2, <2>2
      <4> QED
          BY <4>2, <4>3
    <3> QED
        BY <3>1, <3>2, <1>2
  <2>9. RankedBy(rank2, n + 1)'
      BY <2>2, <2>4, <2>6, <2>7, <2>8 DEF RankedBy
  <2> QED
      BY <2>2, <2>9 DEF Ranked
<1>9. Awaited'
  <2> SUFFICES ASSUME Listening', ~cx'.raced
               PROVE  /\ \A d \in Invokes : calls'[d].pc \in {"sent", "built"} => d \in Flight'
                      /\ cx'.handlers # <<>> /\ CancelTimer(calls'[Head(cx'.handlers)]) =>
                            Range(cx'.handlers) \subseteq Flight'
      BY DEF Awaited
  <2>1. Listening /\ ~cx.raced
      BY <1>2 DEF Listening
  <2>2. \A d \in Invokes : calls'[d].pc \in {"sent", "built"} => d \in Flight'
      BY <2>1, <1>6, <1>7 DEF ConnInv, Ordered, Awaited
  <2>3. cx.handlers # <<>> => Head(cx.handlers) \in Invokes
      BY <1>1
  <2>4. cx.handlers # <<>> /\ CancelTimer(calls'[Head(cx.handlers)]) => Range(cx.handlers) \subseteq Flight
      BY <2>1, <2>3, <1>7 DEF ConnInv, Ordered, Awaited, CancelTimer
  <2> QED
      BY <2>2, <2>4, <1>2, <1>6
<1>10. OwnAnswer'
    BY <1>2, <1>7 DEF ConnInv, Ordered, OwnAnswer
<1>11. \A d \in Unsent' : d \notin Flight' /\ d \notin Range(cx'.handlers)
  <2> SUFFICES ASSUME NEW d \in Invokes, calls'[d].pc \in {"idle", "found", "failed", "locked"}
               PROVE  d \notin Flight' /\ d \notin Range(cx'.handlers)
      BY DEF Unsent
  <2>1. d # c /\ d \in Unsent
      BY <1>7 DEF Unsent
  <2> QED
      BY <2>1, <1>2, <1>6 DEF ConnInv, Ordered
<1> QED
    BY <1>8, <1>9, <1>10, <1>11 DEF Ordered

LEMMA InvokeSendStep ==
    ASSUME ConnInv, NEW c \in Invokes, InvokeSend(c)
    PROVE  ConnInv'
<1>1. /\ calls[c].pc = "locked" /\ UNCHANGED <<closer, wire>> /\ cx \in CxType /\ cx.refs \in Int
      /\ c \in Callers /\ calls[c] \in CallType /\ ClosersTyped(closer)
      /\ OncePer(calls[c], closer[c]) /\ cx.queue \in Seq(Items) /\ c \in Items
    BY CallIsTyped DEF InvokeSend, CxType, Callers, Items
<1>2. calls[c].timer = "none" /\ calls[c].got = <<>> /\ closer[c] = "off"
    BY <1>1 DEF OncePer
<1>3. "leaving" \in Pcs /\ "sent" \in Pcs /\ "error" \in Results
    BY DEF Pcs, Results
<1>4. CASE cx' = cx /\ calls' = [calls EXCEPT ![c] = CallBack([@ EXCEPT !.pc = "leaving"], "error")]
  <2> DEFINE k == CallBack([calls[c] EXCEPT !.pc = "leaving"], "error")
  <2>2. /\ k \in CallType /\ k.pc = "leaving" /\ k.timer = "none"
        /\ k.got = Append(calls[c].got, "error") /\ Len(k.got) = 1
      BY <1>1, <1>2, <1>3, FailedFields, Zenon
  <2>3. calls' = [calls EXCEPT ![c] = k]
      BY <1>4
  <2> HIDE DEF k
  <2>4. OncePer(k, closer'[c])
      BY <1>1, <1>2, <2>2 DEF OncePer
  <2>5. CallMoves(calls[c], k, c)
    <3>1. \A i \in DOMAIN k.got : k.got[i] \in Invokes \ {c} => cx.raced
        BY <1>2, <2>2, WordMoves, Zenon
    <3> QED
        BY <2>2, <3>1 DEF CallMoves, CancelTimer
  <2>6. RefsFollow(c, k, cx.refs)
      BY <1>1, <1>2, <2>2 DEF RefsFollow, Runs, Holds
  <2> QED
      BY <1>1, <1>4, <2>2, <2>3, <2>4, <2>5, <2>6, RefsField, CallStep, Zenon
<1>5. CASE cx' = DoSend(cx, c) /\ calls' = [calls EXCEPT ![c].pc = "sent"]
  <2> DEFINE k == [calls[c] EXCEPT !.pc = "sent"]
  <2>1. /\ k \in CallType /\ k.pc = "sent" /\ k.timer = "none" /\ k.got = <<>>
        /\ calls' = [calls EXCEPT ![c] = k]
      BY <1>1, <1>2, <1>3, <1>5, PcFields
  <2> HIDE DEF k
  <2>2. cx' \in CxType /\ cx'.refs = cx.refs /\ cx'.queue = Append(cx.queue, c)
      BY <1>1, <1>5, DoSendFields, Zenon
  <2>3. ConnTyped'
      BY <1>1, <2>1, <2>2, AppendFacts DEF ConnInv, ConnTyped, ClosersTyped
  <2>4. Once'
    <3>1. OncePer(k, closer'[c])
        BY <1>1, <1>2, <2>1 DEF OncePer
    <3> QED
        BY <1>1, <2>1, <3>1, OnceStep, Zenon DEF ConnInv
  <2>5. ReferencesArePaired'
    <3>1. RefsFollow(c, k, cx'.refs)
        BY <1>1, <1>2, <2>1, <2>2 DEF RefsFollow, Runs, Holds
    <3> QED
        BY <1>1, <2>1, <3>1, PairedStep, Zenon DEF ConnInv
  <2> QED
      BY <1>1, <1>5, <2>3, <2>4, <2>5, SendOrdered, Zenon DEF ConnInv
<1> QED
    BY <1>4, <1>5 DEF InvokeSend

LEMMA ArmedFields ==
    ASSUME NEW k \in CallType
    PROVE  LET l == [k EXCEPT !.pc = "built", !.timer = "armed"]
           IN  l \in CallType /\ l.pc = "built" /\ l.timer = "armed" /\ l.tried = k.tried /\ l.got = k.got
BY Zenon DEF CallType, Pcs

LEMMA BuildHandlerStep ==
    ASSUME ConnInv, NEW c \in Invokes, BuildHandler(c)
    PROVE  ConnInv'
<1>1. /\ calls[c].pc = "sent" /\ UNCHANGED <<closer, wire>> /\ cx \in CxType /\ cx.refs \in Int
      /\ c \in Callers /\ calls[c] \in CallType /\ ClosersTyped(closer)
      /\ OncePer(calls[c], closer[c])
    BY CallIsTyped DEF BuildHandler, Callers
<1>2. calls[c].timer = "none" /\ calls[c].got = <<>> /\ closer[c] = "off"
    BY <1>1 DEF OncePer
<1>3. /\ "leaving" \in Pcs /\ "built" \in Pcs /\ "destroyed" \in Results
      /\ cx.refs + 1 \in Int
    BY <1>1 DEF Pcs, Results
<1>4. CASE cx' = cx /\ calls' = [calls EXCEPT ![c] = CallBack([@ EXCEPT !.pc = "leaving"], "destroyed")]
  <2> DEFINE k == CallBack([calls[c] EXCEPT !.pc = "leaving"], "destroyed")
  <2>2. /\ k \in CallType /\ k.pc = "leaving" /\ k.timer = "none"
        /\ k.got = Append(calls[c].got, "destroyed") /\ Len(k.got) = 1
      BY <1>1, <1>2, <1>3, FailedFields, Zenon
  <2>3. calls' = [calls EXCEPT ![c] = k]
      BY <1>4
  <2> HIDE DEF k
  <2>4. OncePer(k, closer'[c])
      BY <1>1, <1>2, <2>2 DEF OncePer
  <2>5. CallMoves(calls[c], k, c)
    <3>1. \A i \in DOMAIN k.got : k.got[i] \in Invokes \ {c} => cx.raced
        BY <1>2, <2>2, WordMoves, Zenon
    <3> QED
        BY <1>1, <2>2, <3>1 DEF CallMoves, CancelTimer
  <2>6. RefsFollow(c, k, cx.refs)
      BY <1>1, <1>2, <2>2 DEF RefsFollow, Runs, Holds
  <2> QED
      BY <1>1, <1>4, <2>2, <2>3, <2>4, <2>5, <2>6, RefsField, CallStep, Zenon
<1>5. CASE cx' = cx /\ calls' = [calls EXCEPT ![c].pc = "built"]
  <2> DEFINE k == [calls[c] EXCEPT !.pc = "built"]
  <2>1. /\ k \in CallType /\ k.pc = "built" /\ k.timer = "none" /\ k.got = <<>>
        /\ calls' = [calls EXCEPT ![c] = k]
      BY <1>1, <1>2, <1>3, <1>5, PcFields
  <2> HIDE DEF k
  <2>2. OncePer(k, closer'[c])
      BY <1>1, <1>2, <2>1 DEF OncePer
  <2>3. CallMoves(calls[c], k, c)
      BY <1>1, <2>1 DEF CallMoves, CancelTimer
  <2>4. RefsFollow(c, k, cx.refs)
      BY <1>1, <1>2, <2>1 DEF RefsFollow, Runs, Holds
  <2> QED
      BY <1>1, <1>5, <2>1, <2>2, <2>3, <2>4, RefsField, CallStep, Zenon
<1>6. CASE /\ cx' = [cx EXCEPT !.refs = cx.refs + 1]
           /\ calls' = [calls EXCEPT ![c] = [@ EXCEPT !.pc = "built", !.timer = "armed"]]
  <2> DEFINE k == [calls[c] EXCEPT !.pc = "built", !.timer = "armed"]
  <2>1. /\ k \in CallType /\ k.pc = "built" /\ k.timer = "armed" /\ k.got = <<>>
        /\ calls' = [calls EXCEPT ![c] = k]
      BY <1>1, <1>2, <1>6, ArmedFields, Zenon
  <2> HIDE DEF k
  <2>2. OncePer(k, closer'[c])
      BY <1>1, <1>2, <2>1 DEF OncePer
  <2>3. CallMoves(calls[c], k, c)
      BY <1>1, <2>1 DEF CallMoves, CancelTimer
  <2>4. RefsFollow(c, k, cx.refs + 1)
      BY <1>1, <1>2, <2>1 DEF RefsFollow, Runs, Holds
  <2>5. QuietBut(cx, cx', cx.refs + 1)
      BY <1>1, <1>3, <1>6, RefsField
  <2> QED
      BY <1>1, <1>3, <2>1, <2>2, <2>3, <2>4, <2>5, CallStep, Zenon
<1> QED
    BY <1>4, <1>5, <1>6 DEF BuildHandler

\* The handler is added behind those of earlier requests, unless there is a race.
LEMMA PushOrdered ==
    ASSUME ConnInv, NEW c \in Invokes, calls[c].pc = "built",
           NEW k \in CallType, calls' = [calls EXCEPT ![c] = k], k.pc = "leaving",
           \A i \in DOMAIN k.got : k.got[i] \in Invokes \ {c} => cx.raced,
           cx'.handlers = Append(cx.handlers, c), cx'.queue = cx.queue, wire' = wire,
           cx'.shut = cx.shut, cx'.reading = cx.reading,
           cx'.raced = (cx.raced \/ \E d \in Invokes \ {c} : calls[d].pc \in {"sent", "built"})
    PROVE  Ordered'
<1>1. cx.handlers \in Seq(Invokes) /\ c \in Callers /\ cx.raced \in BOOLEAN
    BY DEF ConnInv, ConnTyped, CxType, Callers
<1>2. Range(cx'.handlers) = Range(cx.handlers) \cup {c}
    BY <1>1, AppendFacts
<1>3. \A d \in Invokes : calls'[d] = IF d = c THEN k ELSE calls[d]
    BY DEF ConnInv, ConnTyped, Callers
<1>4. Flight' = Flight /\ (Listening' <=> Listening)
    BY DEF Flight, Listening
<1>5. PICK rank \in [Invokes -> Nat], n \in Nat : RankedBy(rank, n)
    BY DEF ConnInv, Ordered, Ranked
<1>6. ~cx'.raced => ~cx.raced /\ \A d \in Invokes : calls'[d].pc \notin {"sent", "built"}
    BY <1>1, <1>3, Zenon
<1>7. ~cx'.raced => \A i \in DOMAIN cx.handlers : rank[cx.handlers[i]] < rank[c]
    BY <1>5, <1>6 DEF RankedBy
<1>8. Ranked'
  <2>1. ~cx'.raced => Ascending(cx'.handlers, rank)
    <3> SUFFICES ASSUME ~cx'.raced PROVE Ascending(Append(cx.handlers, c), rank)
        OBVIOUS
    <3>1. Ascending(cx.handlers, rank)
        BY <1>5, <1>6 DEF RankedBy
    <3> QED
        BY <1>1, <1>7, <3>1, AscendingAppend
  <2>2. RankedBy(rank, n)'
      BY <1>5, <1>6, <2>1 DEF RankedBy
  <2> QED
      BY <2>2 DEF Ranked
<1>9. Awaited'
  <2> SUFFICES ASSUME Listening', ~cx'.raced,
                      cx'.handlers # <<>>, CancelTimer(calls'[Head(cx'.handlers)])
               PROVE  Range(cx'.handlers) \subseteq Flight'
      BY <1>6 DEF Awaited
  <2>1. Listening /\ ~cx.raced /\ c \in Flight
      BY <1>4, <1>6 DEF ConnInv, Ordered, Awaited
  <2>2. CASE cx.handlers = <<>>
    <3>1. Range(cx.handlers) = {}
        BY <2>2 DEF Range
    <3> QED
        BY <3>1, <2>1, <1>2, <1>4
  <2>3. CASE cx.handlers # <<>>
    <3> DEFINE h == Head(cx.handlers)
    <3>1. h \in Invokes /\ h = cx.handlers[1] /\ 1 \in DOMAIN cx.handlers
        BY <1>1, <2>3, TailFacts
    <3>2. Head(cx'.handlers) = h
        BY <1>1, <2>3
    <3> HIDE DEF h
    <3>3. h # c
      <4>1. rank[h] < rank[c] /\ rank[c] \in Nat
          BY <3>1, <1>7
      <4> QED
          BY <4>1
    <3>4. CancelTimer(calls[h])
        BY <3>1, <3>2, <3>3, <1>3
    <3>5. Range(cx.handlers) \subseteq Flight
        BY <2>1, <2>3, <3>4 DEF ConnInv, Ordered, Awaited, h
    <3> QED
        BY <3>5, <2>1, <1>2, <1>4
  <2> QED
      BY <2>2, <2>3
<1>10. OwnAnswer'
  <2>1. cx.raced => cx'.raced
      BY Zenon
  <2> QED
      BY <1>3, <2>1 DEF ConnInv, Ordered, OwnAnswer
<1>11. \A d \in Unsent' : d \notin Flight' /\ d \notin Range(cx'.handlers)
  <2> SUFFICES ASSUME NEW d \in Invokes, calls'[d].pc \in {"idle", "found", "failed", "locked"}
               PROVE  d \notin Flight' /\ d \notin Range(cx'.handlers)
      BY DEF Unsent
  <2>1. d # c /\ d \in Unsent
      BY <1>3 DEF Unsent
  <2> QED
      BY <2>1, <1>2, <1>4 DEF ConnInv, Ordered
<1> QED
    BY <1>8, <1>9, <1>10, <1>11 DEF Ordered

LEMMA PushHandlerStep ==
    ASSUME ConnInv, NEW c \in Invokes, PushHandler(c)
    PROVE  ConnInv'
<1>1. /\ calls[c].pc = "built" /\ UNCHANGED <<closer, wire>> /\ cx \in CxType /\ cx.refs \in Int
      /\ c \in Callers /\ calls[c] \in CallType /\ ClosersTyped(closer)
      /\ OncePer(calls[c], closer[c]) /\ cx.handlers \in Seq(Invokes) /\ cx.raced \in BOOLEAN
    BY CallIsTyped DEF PushHandler, Callers, CxType
<1> DEFINE l == [calls[c] EXCEPT !.pc = "leaving"]
           f == CallBack([calls[c] EXCEPT !.pc = "leaving"], "destroyed")
           k == IF calls[c].timer = "none" THEN f ELSE l
           race == cx.raced \/ \E d \in Invokes \ {c} : calls[d].pc \in {"sent", "built"}
<1>2. "leaving" \in Pcs /\ "destroyed" \in Results /\ race \in BOOLEAN
    BY <1>1 DEF Pcs, Results
<1>3. /\ l \in CallType /\ l.pc = "leaving" /\ l.timer = calls[c].timer /\ l.tried = calls[c].tried
      /\ l.got = calls[c].got
    BY <1>1, <1>2, PcFields
<1>4. calls' = [calls EXCEPT ![c] = k]
    BY DEF PushHandler
<1>5. cx' = [cx EXCEPT !.handlers = Append(cx.handlers, c), !.raced = race]
    BY DEF PushHandler
<1> HIDE DEF l, race
<1>6. /\ k \in CallType /\ k.pc = "leaving" /\ k.timer = calls[c].timer
      /\ k.got = calls[c].got \/ k.got = Append(calls[c].got, "destroyed")
      /\ calls[c].timer = "none" => calls[c].got = <<>> /\ Len(k.got) = 1
      /\ calls[c].timer # "none" => k.got = calls[c].got
  <2>1. calls[c].timer = "none" => calls[c].got = <<>>
      BY <1>1 DEF OncePer
  <2>2. CASE calls[c].timer = "none"
    <3>1. "destroyed" \in Results
        BY DEF Results
    <3>2. /\ f \in CallType /\ f.pc = "leaving" /\ f.timer = calls[c].timer
          /\ f.got = Append(calls[c].got, "destroyed") /\ Len(f.got) = 1
        BY <2>1, <2>2, <1>1, <1>2, <3>1, FailedFields, Zenon
    <3> HIDE DEF f
    <3> QED
        BY <2>1, <2>2, <3>2, Zenon
  <2>3. CASE calls[c].timer # "none"
    <3> HIDE DEF f
    <3> QED
        BY <2>3, <1>3
  <2> QED
      BY <2>2, <2>3
<1> HIDE DEF k
<1>7. Append(cx.handlers, c) \in Seq(Invokes)
    BY <1>1
<1>8. /\ cx' \in CxType /\ cx'.refs = cx.refs /\ cx'.handlers = Append(cx.handlers, c)
      /\ cx'.queue = cx.queue /\ cx'.shut = cx.shut /\ cx'.reading = cx.reading
      /\ cx'.writing = cx.writing /\ cx'.raced = race
    BY <1>1, <1>2, <1>5, <1>7, Zenon DEF CxType
<1>9. ConnTyped'
    BY <1>1, <1>4, <1>6, <1>8 DEF ConnInv, ConnTyped, ClosersTyped
<1>10. Once'
  <2>1. OncePer(k, closer'[c])
      BY <1>1, <1>6 DEF OncePer
  <2> QED
      BY <1>1, <1>4, <2>1, OnceStep, Zenon DEF ConnInv
<1>11. ReferencesArePaired'
  <2>1. RefsFollow(c, k, cx'.refs)
      BY <1>1, <1>6, <1>8 DEF RefsFollow, Runs, Holds
  <2> QED
      BY <1>1, <1>4, <2>1, PairedStep, Zenon DEF ConnInv
<1>12. Ordered'
  <2>1. \A i \in DOMAIN k.got : k.got[i] \in Invokes \ {c} => cx.raced
      BY <1>6, WordMoves
  <2> QED
      BY <1>1, <1>4, <1>6, <1>8, <2>1, PushOrdered, Zenon DEF race
<1> QED
    BY <1>9, <1>10, <1>11, <1>12 DEF ConnInv

-----------------------------------------------------------------------------
\* Closing and timers

LEMMA QuietFields ==
    ASSUME NEW x \in CxType, NEW t \in BOOLEAN, NEW b \in BOOLEAN
    PROVE  /\ Quiet(x, [x EXCEPT !.want = t]) /\ Quiet(x, [x EXCEPT !.want = t, !.lost = b])
           /\ Quiet(x, [x EXCEPT !.closeCalled = t]) /\ Quiet(x, [x EXCEPT !.listed = t])
           /\ Quiet(x, [x EXCEPT !.due = t]) /\ Quiet(x, [x EXCEPT !.armed = t, !.due = b])
           /\ Quiet(x, [x EXCEPT !.posted = t])
           /\ ~t => Quiet(x, [x EXCEPT !.writing = t]) /\ Quiet(x, [x EXCEPT !.reading = t])
                    /\ Quiet(x, [x EXCEPT !.reading = t, !.ready = b])
<1>1. Quiet(x, [x EXCEPT !.want = t])
    BY Zenon DEF CxType, Quiet
<1>2. Quiet(x, [x EXCEPT !.want = t, !.lost = b])
    BY Zenon DEF CxType, Quiet
<1>3. Quiet(x, [x EXCEPT !.closeCalled = t])
    BY Zenon DEF CxType, Quiet
<1>4. Quiet(x, [x EXCEPT !.listed = t])
    BY Zenon DEF CxType, Quiet
<1>5. Quiet(x, [x EXCEPT !.due = t])
    BY Zenon DEF CxType, Quiet
<1>6. Quiet(x, [x EXCEPT !.armed = t, !.due = b])
    BY Zenon DEF CxType, Quiet
<1>7. Quiet(x, [x EXCEPT !.posted = t])
    BY Zenon DEF CxType, Quiet
<1>8. ~t => Quiet(x, [x EXCEPT !.writing = t])
    BY Zenon DEF CxType, Quiet
<1>9. ~t => Quiet(x, [x EXCEPT !.reading = t])
    BY Zenon DEF CxType, Quiet
<1>10. ~t => Quiet(x, [x EXCEPT !.reading = t, !.ready = b])
    BY Zenon DEF CxType, Quiet
<1> QED
    BY <1>1, <1>2, <1>3, <1>4, <1>5, <1>6, <1>7, <1>8, <1>9, <1>10

LEMMA QuietTwice ==
    ASSUME NEW x, NEW y, NEW z, Quiet(x, y), Quiet(y, z)
    PROVE  Quiet(x, z)
BY DEF Quiet

\* connection::close begins: the timer is cancelled.
LEMMA CloseLookQuiet ==
    ASSUME ConnInv, NEW a \in Closers, NEW x, Quiet(cx, x), CloseLook(a, x)
    PROVE  Quiet(cx, cx') /\ ClosersTyped(closer') /\ closer'[a] \in {"empty", "queued"}
           /\ \A d \in Invokes \ {a} : closer'[d] = closer[d]
<1>1. x \in CxType /\ closer \in [Closers -> {"off", "found", "empty", "queued", "done", "erased"}]
    BY DEF ConnInv, ConnTyped, Quiet
<1>2. cx' = [x EXCEPT !.armed = FALSE]
    BY DEF CloseLook
<1>3. Quiet(x, cx')
    BY <1>1, <1>2, ArmedQuiet, Zenon
<1>4. Quiet(cx, cx')
    BY <1>3, QuietTwice
<1>5. PICK q \in {"empty", "queued"} : closer' = [closer EXCEPT ![a] = q]
    BY Zenon DEF CloseLook
<1>6. \A d \in Invokes : d \in Closers
    BY DEF Closers
<1> QED
    BY <1>1, <1>4, <1>5, <1>6 DEF ClosersTyped

LEMMA CloseActStep ==
    ASSUME ConnInv, NEW a \in Closers, CloseAct(a)
    PROVE  ConnInv'
<1>1. /\ cx \in CxType /\ cx.lost \in BOOLEAN /\ UNCHANGED <<calls, wire>>
      /\ closer \in [Closers -> {"off", "found", "empty", "queued", "done", "erased"}]
    BY DEF ConnInv, ConnTyped, CxType, CloseAct
<1>2. closer' = [closer EXCEPT ![a] = "done"] /\ closer[a] \in {"empty", "queued"}
    BY DEF CloseAct
<1>3. ClosersTyped(closer') /\ \A c \in Invokes : (closer'[c] = "off") <=> (closer[c] = "off")
    BY <1>1, <1>2 DEF ClosersTyped, Closers
<1>4. Quiet(cx, cx')
  <2>1. CASE closer[a] = "empty"
    <3> DEFINE x == [cx EXCEPT !.want = TRUE]
    <3>1. Quiet(cx, x)
        BY <1>1, QuietFields, Zenon
    <3>2. x \in CxType
        BY <3>1 DEF Quiet
    <3>3. cx' = Shutdown(x, a)
        BY <2>1 DEF CloseAct
    <3> HIDE DEF x
    <3>4. Quiet(x, cx')
        BY <3>2, <3>3, ShutdownQuiet
    <3> QED
        BY <3>1, <3>4, QuietTwice
  <2>2. CASE closer[a] # "empty"
    <3> DEFINE b == cx.lost \/ (cx.queue = <<>> /\ ~cx.shut)
    <3>1. b \in BOOLEAN
        OBVIOUS
    <3>2. cx' = [cx EXCEPT !.want = TRUE, !.lost = b]
        BY <2>2 DEF CloseAct
    <3> HIDE DEF b
    <3> QED
        BY <1>1, <3>1, <3>2, QuietFields, Zenon
  <2> QED
      BY <2>1, <2>2
<1> QED
    BY <1>1, <1>3, <1>4, QuietStep

LEMMA DropStep ==
    ASSUME ConnInv, Drop
    PROVE  ConnInv'
<1>1. /\ cx \in CxType /\ UNCHANGED <<calls, wire>>
      /\ closer \in [Closers -> {"off", "found", "empty", "queued", "done", "erased"}]
      /\ "drop" \in Closers /\ "drop" \notin Invokes
    BY InvokesAreNoWords DEF ConnInv, ConnTyped, Drop, Closers
<1>2. ASSUME NEW q \in {"found", "erased"}, closer' = [closer EXCEPT !["drop"] = q]
      PROVE  ClosersTyped(closer') /\ \A d \in Invokes : closer'[d] = closer[d]
    BY <1>1, <1>2 DEF ClosersTyped, Closers
<1>3. CASE closer' = [closer EXCEPT !["drop"] = "found"] /\ cx' = cx
  <2>1. Quiet(cx, cx')
      BY <1>1, <1>3 DEF Quiet
  <2> QED
      BY <1>1, <1>2, <1>3, <2>1, QuietStep
<1>4. CASE CloseLook("drop", [cx EXCEPT !.closeCalled = TRUE])
  <2>1. Quiet(cx, [cx EXCEPT !.closeCalled = TRUE])
      BY <1>1, QuietFields, Zenon
  <2>2. Quiet(cx, cx') /\ ClosersTyped(closer') /\ \A d \in Invokes : closer'[d] = closer[d]
      BY <1>1, <1>4, <2>1, CloseLookQuiet, Zenon
  <2> QED
      BY <1>1, <2>2, QuietStep
<1>5. CASE closer' = [closer EXCEPT !["drop"] = "erased"] /\ cx' = [cx EXCEPT !.listed = FALSE]
  <2>1. Quiet(cx, cx')
      BY <1>1, <1>5, QuietFields, Zenon
  <2> QED
      BY <1>1, <1>2, <1>5, <2>1, QuietStep
<1> QED
    BY <1>3, <1>4, <1>5 DEF Drop

LEMMA TimerExpiresStep ==
    ASSUME ConnInv, TimerExpires
    PROVE  ConnInv'
<1>1. cx \in CxType /\ UNCHANGED <<calls, closer, wire>> /\ ClosersTyped(closer)
    BY DEF ConnInv, ConnTyped, TimerExpires, ClosersTyped
<1>2. Quiet(cx, cx')
    BY <1>1, QuietFields, Zenon DEF TimerExpires
<1> QED
    BY <1>1, <1>2, QuietStep

LEMMA ConnectionTimeoutStep ==
    ASSUME ConnInv, ConnectionTimeout
    PROVE  ConnInv'
<1>1. cx \in CxType /\ UNCHANGED <<calls, wire>> /\ "timer" \in Closers /\ "timer" \notin Invokes
    BY InvokesAreNoWords DEF ConnInv, ConnTyped, ConnectionTimeout, Closers
<1>2. Quiet(cx, [cx EXCEPT !.due = FALSE])
    BY <1>1, QuietFields, Zenon
<1>3. CloseLook("timer", [cx EXCEPT !.due = FALSE])
    BY DEF ConnectionTimeout
<1>4. Quiet(cx, cx') /\ ClosersTyped(closer') /\ \A d \in Invokes : closer'[d] = closer[d]
    BY <1>1, <1>2, <1>3, CloseLookQuiet, Zenon
<1> QED
    BY <1>1, <1>4, QuietStep

LEMMA TimerMoves ==
    ASSUME NEW k \in CallType, NEW t \in {"due", "off"}
    PROVE  LET l == [k EXCEPT !.timer = t]
           IN  l \in CallType /\ l.pc = k.pc /\ l.timer = t /\ l.tried = k.tried /\ l.got = k.got
BY DEF CallType

\* A wait of an invoke's timer ends.
LEMMA InvokeTimerExpiresStep ==
    ASSUME ConnInv, NEW c \in Invokes, InvokeTimerExpires(c)
    PROVE  ConnInv'
<1>1. /\ c \in Callers /\ calls[c] \in CallType /\ OncePer(calls[c], closer[c]) /\ ClosersTyped(closer)
      /\ cx \in CxType /\ cx.refs \in Int
    BY CallIsTyped DEF Callers
<1>2. calls[c].timer = "armed" /\ UNCHANGED <<cx, closer, wire>>
    BY DEF InvokeTimerExpires
<1> DEFINE k == [calls[c] EXCEPT !.timer = "due"]
<1>3. /\ k \in CallType /\ k.pc = calls[c].pc /\ k.timer = "due" /\ k.tried = calls[c].tried
      /\ k.got = calls[c].got
    BY <1>1, TimerMoves, Zenon
<1>4. calls' = [calls EXCEPT ![c] = k]
    BY DEF InvokeTimerExpires
<1> HIDE DEF k
<1>5. OncePer(k, closer'[c])
    BY <1>1, <1>2, <1>3 DEF OncePer
<1>6. CallMoves(calls[c], k, c)
  <2>1. \A i \in DOMAIN k.got : k.got[i] \in Invokes \ {c} => cx.raced
      BY <1>3 DEF ConnInv, Ordered, OwnAnswer
  <2> QED
      BY <1>3, <2>1 DEF CallMoves, CancelTimer
<1>7. RefsFollow(c, k, cx.refs)
    BY <1>2, <1>3 DEF RefsFollow, Runs, Holds
<1>8. QuietBut(cx, cx', cx.refs)
    BY <1>1, <1>2, RefsField, Zenon
<1> QED
    BY <1>1, <1>2, <1>3, <1>4, <1>5, <1>6, <1>7, <1>8, CallStep, Zenon

\* The timer's callback reports the timeout once, closes the connection, and
\* lets its reference go when close has returned.
LEMMA InvokeTimeoutStep ==
    ASSUME ConnInv, NEW c \in Invokes, InvokeTimeout(c)
    PROVE  ConnInv'
<1>1. /\ c \in Callers /\ c \in Closers /\ calls[c] \in CallType /\ OncePer(calls[c], closer[c])
      /\ ClosersTyped(closer) /\ cx \in CxType /\ cx.refs \in Int
    BY CallIsTyped DEF Callers, Closers
<1>2. calls[c].timer = "due"
    BY DEF InvokeTimeout
<1>3. CASE /\ closer[c] = "off" /\ calls' = [calls EXCEPT ![c] = CallBack(@, "timedout")]
           /\ CloseLook(c, [cx EXCEPT !.closeCalled = TRUE]) /\ UNCHANGED wire
  <2> DEFINE k == CallBack(calls[c], "timedout")
  <2>1. "timedout" \in Results /\ calls[c].got = <<>>
      BY <1>1, <1>2, <1>3 DEF Results, OncePer
  <2>2. /\ k \in CallType /\ k.pc = calls[c].pc /\ k.timer = "due" /\ k.tried = calls[c].tried
        /\ k.got = Append(calls[c].got, "timedout") /\ Len(k.got) = 1
      BY <1>1, <1>2, <2>1, CallBackFields, Zenon
  <2>3. calls' = [calls EXCEPT ![c] = k]
      BY <1>3
  <2> HIDE DEF k
  <2>4. Quiet(cx, [cx EXCEPT !.closeCalled = TRUE])
      BY <1>1, QuietFields, Zenon
  <2>5. /\ Quiet(cx, cx') /\ ClosersTyped(closer') /\ closer'[c] \in {"empty", "queued"}
        /\ \A d \in Invokes \ {c} : closer'[d] = closer[d]
      BY <1>1, <1>3, <2>4, CloseLookQuiet, Zenon
  <2>6. QuietBut(cx, cx', cx.refs)
      BY <2>5 DEF Quiet, QuietBut
  <2>7. OncePer(k, closer'[c])
      BY <1>1, <1>2, <2>2, <2>5 DEF OncePer
  <2>8. CallMoves(calls[c], k, c)
    <3>1. \A i \in DOMAIN k.got : k.got[i] \in Invokes \ {c} => cx.raced
        BY <2>2, WordMoves, Zenon
    <3> QED
        BY <2>2, <3>1 DEF CallMoves, CancelTimer
  <2>9. RefsFollow(c, k, cx.refs)
      BY <1>2, <2>2 DEF RefsFollow, Runs, Holds
  <2> QED
      BY <1>1, <1>3, <2>2, <2>3, <2>5, <2>6, <2>7, <2>8, <2>9, CallStep, Zenon
<1>4. CASE /\ closer[c] = "done" /\ calls' = [calls EXCEPT ![c].timer = "off"]
           /\ cx' = FinishOuterCall(cx) /\ UNCHANGED <<closer, wire>>
  <2> DEFINE k == [calls[c] EXCEPT !.timer = "off"]
  <2>1. /\ k \in CallType /\ k.pc = calls[c].pc /\ k.timer = "off" /\ k.tried = calls[c].tried
        /\ k.got = calls[c].got
      BY <1>1, TimerMoves, Zenon
  <2>2. calls' = [calls EXCEPT ![c] = k]
      BY <1>4
  <2> HIDE DEF k
  <2>3. cx.refs - 1 \in Int
      BY <1>1
  <2>4. QuietBut(cx, cx', cx.refs - 1)
      BY <1>1, <1>4, <2>3, RefsField DEF FinishOuterCall
  <2>5. OncePer(k, closer'[c])
      BY <1>1, <1>2, <1>4, <2>1 DEF OncePer
  <2>6. CallMoves(calls[c], k, c)
    <3>1. \A i \in DOMAIN k.got : k.got[i] \in Invokes \ {c} => cx.raced
        BY <2>1 DEF ConnInv, Ordered, OwnAnswer
    <3> QED
        BY <2>1, <3>1 DEF CallMoves, CancelTimer
  <2>7. RefsFollow(c, k, cx.refs - 1)
      BY <1>2, <2>1 DEF RefsFollow, Runs, Holds
  <2> QED
      BY <1>1, <1>4, <2>1, <2>2, <2>3, <2>4, <2>5, <2>6, <2>7, CallStep, Zenon
<1> QED
    BY <1>3, <1>4 DEF InvokeTimeout

-----------------------------------------------------------------------------
\* The strand

LEMMA StrandTyped ==
    ASSUME ConnInv
    PROVE  cx \in CxType /\ ClosersTyped(closer)
BY DEF ConnInv, ConnTyped, ClosersTyped

LEMMA HandleWriteErrorStep ==
    ASSUME ConnInv, HandleWriteError
    PROVE  ConnInv'
<1> DEFINE x == [cx EXCEPT !.writing = FALSE]
<1>1. UNCHANGED <<calls, closer, wire>> /\ cx' = Shutdown(x, "strand")
    BY Zenon DEF HandleWriteError
<1>2. Quiet(cx, x)
    BY StrandTyped, QuietFields, Zenon
<1> HIDE DEF x
<1>3. x \in CxType
    BY <1>2 DEF Quiet
<1>4. Quiet(x, cx')
    BY <1>1, <1>3, ShutdownQuiet
<1> QED
    BY <1>1, <1>2, <1>4, StrandTyped, QuietTwice, QuietStep

LEMMA HandleReadEndStep ==
    ASSUME ConnInv, HandleReadEnd
    PROVE  ConnInv'
<1>1. cx \in CxType /\ ClosersTyped(closer) /\ UNCHANGED <<calls, closer, wire>>
    BY StrandTyped, Zenon DEF HandleReadEnd
<1> DEFINE x == [cx EXCEPT !.reading = FALSE, !.ready = TRUE]
<1>2. cx' = [cx EXCEPT !.reading = FALSE] \/ cx' = Shutdown(x, "strand") \/ cx' = x
    BY Zenon DEF HandleReadEnd
<1>3. Quiet(cx, [cx EXCEPT !.reading = FALSE]) /\ Quiet(cx, x)
    BY <1>1, QuietFields, Zenon
<1> HIDE DEF x
<1>4. Quiet(x, Shutdown(x, "strand"))
    BY <1>3, ShutdownQuiet DEF Quiet
<1>5. Quiet(cx, Shutdown(x, "strand"))
    BY <1>3, <1>4, QuietTwice
<1> QED
    BY <1>1, <1>2, <1>3, <1>5, QuietStep, Zenon

LEMMA CallBackStarterStep ==
    ASSUME ConnInv, CallBackStarter
    PROVE  ConnInv'
<1>1. cx \in CxType /\ ClosersTyped(closer) /\ UNCHANGED <<calls, closer, wire>>
    BY StrandTyped DEF CallBackStarter
<1>2. Quiet(cx, cx')
    BY <1>1, QuietFields, Zenon DEF CallBackStarter
<1> QED
    BY <1>1, <1>2, QuietStep

-----------------------------------------------------------------------------
\* Messages under way

\* A step of the connection or the peer that no call notices.
LEMMA FlightStep ==
    ASSUME ConnInv, UNCHANGED <<calls, closer>>, cx' \in CxType, wire' \in WireType,
           cx'.refs = cx.refs, cx'.raced = cx.raced, cx'.handlers \in {cx.handlers, <<>>},
           cx'.writing => cx'.queue # <<>>, Listening' => Listening,
           \A rank \in [Invokes -> Nat] : SeqsRanked(rank) => SeqsRanked(rank)',
           \A c \in Invokes : c \in Flight' => c \in Flight,
           Listening' => \A c \in Invokes : c \in Flight => c \in Flight'
    PROVE  ConnInv'
<1>1. ConnTyped'
    BY DEF ConnInv, ConnTyped
<1>2. Once'
    BY DEF ConnInv, Once
<1>3. ReferencesArePaired'
    BY DEF ConnInv, ReferencesArePaired
<1>4. \A c \in Invokes : CallMoves(calls[c], calls'[c], c)
    BY DEF ConnInv, Ordered, OwnAnswer, CallMoves
<1>5. Ordered'
    BY <1>4, OrderStep DEF ConnInv
<1> QED
    BY <1>1, <1>2, <1>3, <1>5 DEF ConnInv

\* The first of s goes to the end of t.
LEMMA HeadMoves ==
    ASSUME NEW S, NEW T, NEW s \in Seq(S), s # <<>>, NEW t \in Seq(T), Head(s) \in T, NEW rank,
           Ascending(s, rank), Ascending(t, rank), Below(t, s, rank)
    PROVE  /\ Ascending(Tail(s), rank) /\ Ascending(Append(t, Head(s)), rank)
           /\ Below(Append(t, Head(s)), Tail(s), rank)
           /\ \A u : Below(u, s, rank) /\ Below(u, t, rank) =>
                        Below(u, Append(t, Head(s)), rank) /\ Below(u, Tail(s), rank)
           /\ \A u : Below(s, u, rank) /\ Below(t, u, rank) =>
                        Below(Append(t, Head(s)), u, rank) /\ Below(Tail(s), u, rank)
<1> DEFINE e == Head(s)
<1>1. /\ e = s[1] /\ 1 \in DOMAIN s
      /\ \A i \in DOMAIN Tail(s) : i + 1 \in DOMAIN s /\ 1 < i + 1 /\ Tail(s)[i] = s[i + 1]
    BY TailFacts
<1> HIDE DEF e
<1>2. Ascending(Tail(s), rank)
    BY AscendingTail
<1>3. \A i \in DOMAIN t : t[i] \in Invokes /\ e \in Invokes => rank[t[i]] < rank[e]
    BY <1>1 DEF Below
<1>4. Ascending(Append(t, e), rank)
    BY <1>3, AscendingAppend DEF e
<1>5. \A i \in DOMAIN Tail(s) : e \in Invokes /\ Tail(s)[i] \in Invokes => rank[e] < rank[Tail(s)[i]]
    BY <1>1 DEF Ascending
<1>6. Below(t, Tail(s), rank)
    BY BelowTail
<1>7. Below(Append(t, e), Tail(s), rank)
    BY <1>5, <1>6, BelowAppend, Zenon DEF e
<1>8. ASSUME NEW u, Below(u, s, rank), Below(u, t, rank)
      PROVE  Below(u, Append(t, e), rank) /\ Below(u, Tail(s), rank)
  <2>1. \A j \in DOMAIN u : e \in Invokes /\ u[j] \in Invokes => rank[u[j]] < rank[e]
      BY <1>8, <1>1 DEF Below
  <2>2. Below(u, Append(t, e), rank)
      BY <1>8, <2>1, BelowAppend DEF e
  <2> QED
      BY <1>8, <2>2, BelowTail
<1>9. ASSUME NEW u, Below(s, u, rank), Below(t, u, rank)
      PROVE  Below(Append(t, e), u, rank) /\ Below(Tail(s), u, rank)
  <2>1. \A j \in DOMAIN u : e \in Invokes /\ u[j] \in Invokes => rank[e] < rank[u[j]]
      BY <1>9, <1>1 DEF Below
  <2>2. Below(Append(t, e), u, rank)
      BY <1>9, <2>1, BelowAppend DEF e
  <2> QED
      BY <1>9, <2>2, BelowTail
<1> QED
    BY <1>2, <1>4, <1>7, <1>8, <1>9 DEF e

\* Something that is no request comes to the end of t.
LEMMA WordComes ==
    ASSUME NEW T, NEW t \in Seq(T), NEW e \in T, e \notin Invokes, NEW rank
    PROVE  /\ Ascending(t, rank) => Ascending(Append(t, e), rank)
           /\ \A u : Below(u, t, rank) => Below(u, Append(t, e), rank)
           /\ \A u : Below(t, u, rank) => Below(Append(t, e), u, rank)
<1>1. Ascending(t, rank) => Ascending(Append(t, e), rank)
    BY AscendingAppend
<1>2. \A u : Below(u, t, rank) => Below(u, Append(t, e), rank)
    BY BelowAppend
<1>3. \A u : Below(t, u, rank) => Below(Append(t, e), u, rank)
    BY BelowAppend
<1> QED
    BY <1>1, <1>2, <1>3

LEMMA AskedField ==
    ASSUME NEW w \in WireType, NEW a \in Seq(Invokes)
    PROVE  LET v == [w EXCEPT !.asked = a]
           IN  v \in WireType /\ v.asked = a /\ v.inbox = w.inbox
BY Zenon DEF WireType

LEMMA InboxField ==
    ASSUME NEW w \in WireType, NEW b \in Seq(Arrives)
    PROVE  LET v == [w EXCEPT !.inbox = b]
           IN  v \in WireType /\ v.inbox = b /\ v.asked = w.asked
BY Zenon DEF WireType

LEMMA EofField ==
    ASSUME NEW w \in WireType
    PROVE  LET v == [w EXCEPT !.eof = TRUE]
           IN  v \in WireType /\ v.inbox = w.inbox /\ v.asked = w.asked
BY Zenon DEF WireType

LEMMA FlightTyped ==
    ASSUME ConnInv
    PROVE  /\ cx \in CxType /\ cx.queue \in Seq(Items) /\ cx.handlers \in Seq(Invokes) /\ cx.raced \in BOOLEAN
           /\ wire \in WireType /\ wire.inbox \in Seq(Arrives) /\ wire.asked \in Seq(Invokes) /\ wire.sent \in Nat
           /\ (cx.writing => cx.queue # <<>>) /\ cx.refs \in Int
<1>1. cx \in CxType /\ wire \in WireType /\ (cx.writing => cx.queue # <<>>)
    BY DEF ConnInv, ConnTyped
<1>2. cx.queue \in Seq(Items) /\ cx.handlers \in Seq(Invokes) /\ cx.raced \in BOOLEAN /\ cx.refs \in Int
    BY <1>1 DEF CxType
<1>3. wire.inbox \in Seq(Arrives) /\ wire.asked \in Seq(Invokes) /\ wire.sent \in Nat
    BY <1>1 DEF WireType
<1> QED
    BY <1>1, <1>2, <1>3

\* A request or another message has been written: handle_write.
LEMMA HandleWriteStep ==
    ASSUME ConnInv, HandleWrite
    PROVE  ConnInv'
<1>1. /\ cx \in CxType /\ cx.queue \in Seq(Items) /\ cx.queue # <<>> /\ UNCHANGED <<calls, closer>>
      /\ wire \in WireType /\ wire.asked \in Seq(Invokes)
    BY FlightTyped DEF HandleWrite
<1> DEFINE q == Tail(cx.queue)
           e == Head(cx.queue)
           x == [cx EXCEPT !.queue = q, !.writing = FALSE]
<1>2. q \in Seq(Items) /\ Range(cx.queue) = Range(q) \cup {e}
    BY <1>1, TailFacts
<1>3. cx' = IF x.queue # <<>> THEN [ResetTimer(x) EXCEPT !.writing = TRUE]
            ELSE IF cx.want THEN Shutdown(x, "strand") ELSE x
    BY DEF HandleWrite
<1>4. wire' = IF e \in Invokes THEN [wire EXCEPT !.asked = Append(wire.asked, e)] ELSE wire
    BY DEF HandleWrite
<1> HIDE DEF q, e
<1>5. /\ x \in CxType /\ x.refs = cx.refs /\ x.handlers = cx.handlers /\ x.raced = cx.raced
      /\ x.queue = q /\ x.reading = cx.reading /\ x.shut = cx.shut /\ ~x.writing
    BY <1>1, <1>2, Zenon DEF CxType
<1> HIDE DEF x
<1>6. /\ cx' \in CxType /\ cx'.refs = cx.refs /\ cx'.handlers = cx.handlers /\ cx'.raced = cx.raced
      /\ cx'.queue = q /\ (cx'.reading => cx.reading) /\ (cx.shut => cx'.shut)
      /\ (cx'.writing => cx'.queue # <<>>)
  <2>1. CASE q # <<>>
    <3> DEFINE r == ResetTimer(x)
    <3>1. Quiet(x, r)
        BY <1>5, ResetTimerQuiet
    <3>2. cx' = [r EXCEPT !.writing = TRUE]
        BY <1>3, <1>5, <2>1
    <3> HIDE DEF r
    <3>3. r \in CxType
        BY <3>1 DEF Quiet
    <3>4. \A t \in BOOLEAN : LET y == [r EXCEPT !.writing = t]
                             IN  /\ y \in CxType /\ y.refs = r.refs /\ y.handlers = r.handlers
                                 /\ y.raced = r.raced /\ y.queue = r.queue /\ y.reading = r.reading
                                 /\ y.shut = r.shut
        BY <3>3, Zenon DEF CxType
    <3>5. /\ cx' \in CxType /\ cx'.refs = r.refs /\ cx'.handlers = r.handlers
          /\ cx'.raced = r.raced /\ cx'.queue = r.queue /\ cx'.reading = r.reading /\ cx'.shut = r.shut
        BY <3>2, <3>4, Zenon
    <3> QED
        BY <1>5, <2>1, <3>1, <3>5 DEF Quiet
  <2>2. CASE q = <<>>
    <3>1. Quiet(x, Shutdown(x, "strand"))
        BY <1>5, ShutdownQuiet
    <3>2. Quiet(x, x)
        BY <1>5 DEF Quiet
    <3>3. Quiet(x, cx')
        BY <1>3, <1>5, <2>2, <3>1, <3>2
    <3> QED
        BY <1>5, <3>3 DEF Quiet
  <2> QED
      BY <2>1, <2>2
<1>7. Listening' => Listening
    BY <1>6 DEF Listening
<1>8. CASE e \in Invokes
  <2>1. Append(wire.asked, e) \in Seq(Invokes) /\ Range(Append(wire.asked, e)) = Range(wire.asked) \cup {e}
      BY <1>1, <1>8, AppendFacts
  <2>2. wire' \in WireType /\ wire'.asked = Append(wire.asked, e) /\ wire'.inbox = wire.inbox
      BY <1>1, <1>4, <1>8, <2>1, AskedField, Zenon
  <2>3. \A c : c \in Flight' <=> c \in Flight
      BY <1>2, <1>6, <2>1, <2>2 DEF Flight
  <2>4. ASSUME NEW rank \in [Invokes -> Nat], SeqsRanked(rank) PROVE SeqsRanked(rank)'
    <3>1. /\ Ascending(q, rank) /\ Ascending(Append(wire.asked, e), rank)
          /\ Below(Append(wire.asked, e), q, rank)
          /\ \A u : Below(u, cx.queue, rank) /\ Below(u, wire.asked, rank) =>
                Below(u, Append(wire.asked, e), rank) /\ Below(u, q, rank)
        BY <1>1, <1>8, <2>4, HeadMoves DEF SeqsRanked, q, e
    <3> QED
        BY <1>6, <2>2, <2>4, <3>1 DEF SeqsRanked
  <2> QED
      BY <1>1, <1>6, <1>7, <2>2, <2>3, <2>4, FlightStep
<1>9. CASE e \notin Invokes
  <2>1. wire' = wire
      BY <1>4, <1>9
  <2>2. \A c \in Invokes : c \in Flight' <=> c \in Flight
      BY <1>2, <1>6, <1>9, <2>1 DEF Flight
  <2>3. ASSUME NEW rank \in [Invokes -> Nat], SeqsRanked(rank) PROVE SeqsRanked(rank)'
    <3>1. Ascending(q, rank) /\ \A u : Below(u, cx.queue, rank) => Below(u, q, rank)
        BY <1>1, <2>3, AscendingTail, BelowTail DEF SeqsRanked, q
    <3> QED
        BY <1>6, <2>1, <2>3, <3>1 DEF SeqsRanked
  <2> QED
      BY <1>1, <1>6, <1>7, <2>1, <2>2, <2>3, FlightStep
<1> QED
    BY <1>8, <1>9

\* The peer answers, says something else or stops.
LEMMA PeerStep ==
    ASSUME ConnInv, Peer
    PROVE  ConnInv'
<1>1. /\ cx \in CxType /\ UNCHANGED <<cx, calls, closer>> /\ (cx.writing => cx.queue # <<>>)
      /\ wire \in WireType /\ wire.asked \in Seq(Invokes) /\ wire.inbox \in Seq(Arrives) /\ wire.sent \in Nat
    BY FlightTyped, Zenon DEF Peer
<1>2. Listening' => Listening
    BY <1>1 DEF Listening
<1>3. CASE /\ wire.asked # <<>>
           /\ wire' = [wire EXCEPT !.asked = Tail(wire.asked), !.inbox = Append(wire.inbox, Head(wire.asked))]
  <2> DEFINE q == Tail(wire.asked)
             e == Head(wire.asked)
             t == Append(wire.inbox, e)
  <2>1. q \in Seq(Invokes) /\ e \in Invokes /\ Range(wire.asked) = Range(q) \cup {e}
      BY <1>1, <1>3, TailFacts
  <2>2. e \in Arrives
      BY <2>1 DEF Arrives
  <2>3. wire' = [wire EXCEPT !.asked = q, !.inbox = t]
      BY <1>3
  <2> HIDE DEF q, e
  <2>4. t \in Seq(Arrives) /\ Range(t) = Range(wire.inbox) \cup {e}
      BY <1>1, <2>2, AppendFacts
  <2>5. wire' \in WireType /\ wire'.asked = q /\ wire'.inbox = t
    <3> HIDE DEF t
    <3> QED
        BY <1>1, <2>1, <2>3, <2>4, Zenon DEF WireType
  <2>6. \A c : c \in Flight' <=> c \in Flight
      BY <1>1, <2>1, <2>4, <2>5 DEF Flight
  <2>7. ASSUME NEW rank \in [Invokes -> Nat], SeqsRanked(rank) PROVE SeqsRanked(rank)'
    <3>1. /\ Ascending(q, rank) /\ Ascending(t, rank) /\ Below(t, q, rank)
          /\ \A u : Below(wire.asked, u, rank) /\ Below(wire.inbox, u, rank) =>
                Below(t, u, rank) /\ Below(q, u, rank)
        BY <1>1, <1>3, <2>2, <2>7, HeadMoves DEF SeqsRanked, q, e
    <3> HIDE DEF t
    <3> QED
        BY <1>1, <2>5, <2>7, <3>1 DEF SeqsRanked
  <2> QED
      BY <1>1, <1>2, <2>5, <2>6, <2>7, FlightStep
<1>4. ASSUME NEW item \in {"request", "note", "nonsense"},
             wire' = [wire EXCEPT !.inbox = Append(wire.inbox, item), !.sent = wire.sent + 1]
      PROVE  ConnInv'
  <2> DEFINE t == Append(wire.inbox, item)
  <2>1. item \in Arrives /\ item \notin Invokes /\ wire.sent + 1 \in Nat
      BY <1>1, InvokesAreNoWords DEF Arrives
  <2>2. t \in Seq(Arrives) /\ Range(t) = Range(wire.inbox) \cup {item}
      BY <1>1, <2>1, AppendFacts
  <2>3. wire' \in WireType /\ wire'.asked = wire.asked /\ wire'.inbox = t
    <3>1. wire' = [wire EXCEPT !.inbox = t, !.sent = wire.sent + 1]
        BY <1>4
    <3> HIDE DEF t
    <3> QED
        BY <1>1, <2>1, <2>2, <3>1, Zenon DEF WireType
  <2>4. \A c \in Invokes : c \in Flight' <=> c \in Flight
      BY <1>1, <2>1, <2>2, <2>3 DEF Flight
  <2>5. ASSUME NEW rank \in [Invokes -> Nat], SeqsRanked(rank) PROVE SeqsRanked(rank)'
    <3>1. Ascending(t, rank) /\ \A u : Below(wire.inbox, u, rank) => Below(t, u, rank)
        BY <1>1, <2>1, <2>5, WordComes DEF SeqsRanked
    <3> HIDE DEF t
    <3> QED
        BY <1>1, <2>3, <2>5, <3>1 DEF SeqsRanked
  <2> QED
      BY <1>1, <1>2, <2>3, <2>4, <2>5, FlightStep
<1>5. CASE wire' = [wire EXCEPT !.eof = TRUE]
  <2>1. wire' \in WireType /\ wire'.asked = wire.asked /\ wire'.inbox = wire.inbox
      BY <1>1, <1>5, EofField, Zenon
  <2>2. /\ \A rank \in [Invokes -> Nat] : SeqsRanked(rank) => SeqsRanked(rank)'
        /\ Flight' = Flight
      BY <1>1, <2>1, SameFlight
  <2> QED
      BY <1>1, <1>2, <2>1, <2>2, FlightStep
<1> QED
    BY <1>3, <1>4, <1>5, Zenon DEF Peer

LEMMA DestructFields ==
    ASSUME NEW x \in CxType, NEW y,
           y = [x EXCEPT !.obj = "gone", !.shut = TRUE, !.released = TRUE,
                         !.handlers = <<>>, !.listed = FALSE]
    PROVE  /\ y \in CxType /\ y.refs = x.refs /\ y.raced = x.raced /\ y.handlers = <<>>
           /\ y.shut /\ y.writing = x.writing /\ y.queue = x.queue
<1> DEFINE u == [x EXCEPT !.obj = "gone"]
<1>1. u \in CxType /\ u.refs = x.refs /\ u.raced = x.raced /\ u.writing = x.writing /\ u.queue = x.queue
    BY Zenon DEF CxType
<1> HIDE DEF u
<1> DEFINE v == [u EXCEPT !.shut = TRUE, !.released = TRUE]
<1>2. \A t \in BOOLEAN : LET z == [u EXCEPT !.shut = t, !.released = t]
                         IN  /\ z \in CxType /\ z.refs = u.refs /\ z.raced = u.raced
                             /\ z.shut = t /\ z.writing = u.writing /\ z.queue = u.queue
    BY <1>1, ZenonT(30) DEF CxType
<1>3. v \in CxType /\ v.refs = u.refs /\ v.raced = u.raced /\ v.shut /\ v.writing = u.writing /\ v.queue = u.queue
    BY <1>2, Zenon
<1> DEFINE w == [v EXCEPT !.handlers = <<>>]
<1>4. y = [w EXCEPT !.listed = FALSE]
    BY DEF u
<1> HIDE DEF v
<1>5. <<>> \in Seq(Invokes)
    OBVIOUS
<1>6. /\ w \in CxType /\ w.refs = v.refs /\ w.raced = v.raced /\ w.handlers = <<>>
      /\ w.shut = v.shut /\ w.writing = v.writing /\ w.queue = v.queue
    BY <1>3, <1>5, Zenon DEF CxType
<1> HIDE DEF w
<1>7. /\ y \in CxType /\ y.refs = w.refs /\ y.raced = w.raced /\ y.handlers = w.handlers
      /\ y.shut = w.shut /\ y.writing = w.writing /\ y.queue = w.queue
    BY <1>4, <1>6, Zenon DEF CxType
<1> QED
    BY <1>1, <1>3, <1>6, <1>7

LEMMA DestructStep ==
    ASSUME ConnInv, Destruct
    PROVE  ConnInv'
<1>1. cx \in CxType /\ wire \in WireType /\ UNCHANGED <<calls, closer, wire>> /\ (cx.writing => cx.queue # <<>>)
    BY FlightTyped DEF Destruct
<1>2. /\ cx' \in CxType /\ cx'.refs = cx.refs /\ cx'.raced = cx.raced /\ cx'.handlers = <<>>
      /\ cx'.shut /\ cx'.writing = cx.writing /\ cx'.queue = cx.queue
    BY <1>1, DestructFields, Zenon DEF Destruct
<1>3. /\ \A rank \in [Invokes -> Nat] : SeqsRanked(rank) => SeqsRanked(rank)'
      /\ Flight' = Flight
    BY <1>1, <1>2, SameFlight
<1>4. ~Listening'
    BY <1>2 DEF Listening
<1> QED
    BY <1>1, <1>2, <1>3, <1>4, FlightStep

-----------------------------------------------------------------------------
\* release_protocol

\* What cancel makes of a call: a timer it stops becomes the one callback.
LEMMA CancelFields ==
    ASSUME NEW k \in CallType
    PROVE  LET l == Cancel(k)
           IN  /\ l \in CallType /\ l.pc = k.pc /\ ~CancelTimer(l)
               /\ CancelTimer(k) => l.timer = "off" /\ l.got = Append(k.got, "destroyed")
               /\ ~CancelTimer(k) => l.timer = k.timer /\ l.got = k.got
<1>1. CASE CancelTimer(k)
  <2> DEFINE m == CallBack(k, "destroyed")
  <2>1. m \in CallType /\ m.pc = k.pc /\ m.got = Append(k.got, "destroyed")
    <3>1. "destroyed" \in Results
        BY DEF Results
    <3> QED
        BY <3>1, CallBackFields, Zenon
  <2>2. Cancel(k) = [m EXCEPT !.tried = TRUE, !.timer = "off"]
      BY <1>1 DEF Cancel
  <2> HIDE DEF m
  <2>3. Cancel(k) \in CallType /\ Cancel(k).pc = m.pc /\ Cancel(k).timer = "off" /\ Cancel(k).got = m.got
      BY <2>1, <2>2, Zenon DEF CallType
  <2> QED
      BY <1>1, <2>1, <2>3 DEF CancelTimer
<1>2. CASE ~CancelTimer(k)
  <2>1. Cancel(k) = [k EXCEPT !.tried = TRUE]
      BY <1>2 DEF Cancel
  <2>2. /\ Cancel(k) \in CallType /\ Cancel(k).pc = k.pc /\ Cancel(k).timer = k.timer
        /\ Cancel(k).got = k.got /\ Cancel(k).tried = TRUE
      BY <2>1, Zenon DEF CallType
  <2> QED
      BY <1>2, <2>2 DEF CancelTimer
<1> QED
    BY <1>1, <1>2

LEMMA ReleaseProtocolStep ==
    ASSUME ConnInv, ReleaseProtocol
    PROVE  ConnInv'
<1> DEFINE hs == Range(cx.handlers)
           held == {c \in hs : CancelTimer(calls[c])}
           H == {d \in Invokes : Holds(calls[d])}
           H1 == {d \in Invokes : Holds(calls'[d])}
<1>1. /\ cx \in CxType /\ cx.refs \in Int /\ cx.handlers \in Seq(Invokes) /\ (cx.writing => cx.queue # <<>>)
      /\ UNCHANGED <<closer, wire>> /\ wire \in WireType
    BY FlightTyped DEF ReleaseProtocol
<1>2. hs \subseteq Invokes /\ Invokes \subseteq Callers
    BY <1>1 DEF Range, Callers
<1>3. calls' = [c \in Callers |-> IF c \in hs THEN Cancel(calls[c]) ELSE calls[c]]
    BY DEF ReleaseProtocol
<1>4. cx' = [cx EXCEPT !.releasing = "nobody", !.released = TRUE, !.handlers = <<>>,
                       !.refs = cx.refs - Cardinality(held)]
    BY DEF ReleaseProtocol
<1> HIDE DEF hs
<1>5. \A c \in Callers :
         /\ calls'[c] \in CallType /\ calls'[c].pc = calls[c].pc
         /\ c \in held => /\ calls'[c].timer = "off" /\ calls[c].timer = "armed"
                          /\ calls'[c].got = Append(calls[c].got, "destroyed")
         /\ c \notin held => calls'[c].timer = calls[c].timer /\ calls'[c].got = calls[c].got
         /\ CancelTimer(calls'[c]) => CancelTimer(calls[c])
  <2> SUFFICES ASSUME NEW c \in Callers
               PROVE  /\ calls'[c] \in CallType /\ calls'[c].pc = calls[c].pc
                      /\ c \in held => /\ calls'[c].timer = "off" /\ calls[c].timer = "armed"
                                       /\ calls'[c].got = Append(calls[c].got, "destroyed")
                      /\ c \notin held => calls'[c].timer = calls[c].timer /\ calls'[c].got = calls[c].got
                      /\ CancelTimer(calls'[c]) => CancelTimer(calls[c])
      OBVIOUS
  <2>1. calls[c] \in CallType /\ calls'[c] = IF c \in hs THEN Cancel(calls[c]) ELSE calls[c]
      BY <1>3, CallIsTyped
  <2>2. CASE c \in hs
    <3> DEFINE l == Cancel(calls[c])
    <3>1. /\ l \in CallType /\ l.pc = calls[c].pc /\ ~CancelTimer(l)
          /\ CancelTimer(calls[c]) => l.timer = "off" /\ l.got = Append(calls[c].got, "destroyed")
          /\ ~CancelTimer(calls[c]) => l.timer = calls[c].timer /\ l.got = calls[c].got
        BY <2>1, CancelFields
    <3>2. calls'[c] = l
        BY <2>1, <2>2
    <3>3. CancelTimer(calls[c]) => calls[c].timer = "armed"
        BY DEF CancelTimer
    <3>4. c \in held <=> CancelTimer(calls[c])
        BY <2>2
    <3> HIDE DEF l, held
    <3> QED
        BY <3>1, <3>2, <3>3, <3>4
  <2>3. CASE c \notin hs
      BY <2>1, <2>3
  <2> QED
      BY <2>2, <2>3
<1>6. held \subseteq Invokes
    BY <1>2
<1>7. IsFiniteSet(held) /\ Cardinality(held) \in Nat
    BY <1>6, CallersAreFinite, FS_Subset, FS_CardinalityType
<1> HIDE DEF held
<1>8. /\ cx' \in CxType /\ cx'.refs = cx.refs - Cardinality(held) /\ cx'.raced = cx.raced /\ cx'.handlers = <<>>
      /\ cx'.shut = cx.shut /\ cx'.reading = cx.reading /\ cx'.writing = cx.writing /\ cx'.queue = cx.queue
  <2> DEFINE r == cx.refs - Cardinality(held)
  <2>1. r \in Int
      BY <1>1, <1>7
  <2>2. cx' = [cx EXCEPT !.releasing = "nobody", !.released = TRUE, !.handlers = <<>>, !.refs = r]
      BY <1>4
  <2> HIDE DEF r
  <2>3. /\ cx' \in CxType /\ cx'.refs = r /\ cx'.raced = cx.raced /\ cx'.handlers = <<>>
        /\ cx'.shut = cx.shut /\ cx'.reading = cx.reading /\ cx'.writing = cx.writing /\ cx'.queue = cx.queue
    <3> DEFINE u == [cx EXCEPT !.releasing = "nobody"]
               v == [u EXCEPT !.released = TRUE]
               w == [v EXCEPT !.handlers = <<>>]
    <3>1. cx' = [w EXCEPT !.refs = r] /\ <<>> \in Seq(Invokes)
        BY <2>2
    <3>2. /\ u \in CxType /\ u.raced = cx.raced /\ u.shut = cx.shut /\ u.reading = cx.reading
          /\ u.writing = cx.writing /\ u.queue = cx.queue
        BY <1>1, Zenon DEF CxType
    <3> HIDE DEF u
    <3>3. /\ v \in CxType /\ v.raced = u.raced /\ v.shut = u.shut /\ v.reading = u.reading
          /\ v.writing = u.writing /\ v.queue = u.queue
        BY <3>2, Zenon DEF CxType
    <3> HIDE DEF v
    <3>4. /\ w \in CxType /\ w.raced = v.raced /\ w.shut = v.shut /\ w.reading = v.reading
          /\ w.writing = v.writing /\ w.queue = v.queue /\ w.handlers = <<>>
        BY <3>1, <3>3, Zenon DEF CxType
    <3> HIDE DEF w
    <3>5. /\ cx' \in CxType /\ cx'.raced = w.raced /\ cx'.shut = w.shut /\ cx'.reading = w.reading
          /\ cx'.writing = w.writing /\ cx'.queue = w.queue /\ cx'.handlers = w.handlers /\ cx'.refs = r
        BY <2>1, <3>1, <3>4, Zenon DEF CxType
    <3> QED
        BY <3>2, <3>3, <3>4, <3>5
  <2> QED
      BY <2>3 DEF r
<1>9. ConnTyped'
  <2>1. calls' \in [Callers -> CallType]
      BY <1>3, <1>5
  <2> QED
      BY <1>1, <1>8, <2>1 DEF ConnInv, ConnTyped
<1>10. Once'
  <2> SUFFICES ASSUME NEW c \in Invokes PROVE OncePer(calls'[c], closer[c])
      BY <1>1 DEF Once
  <2>1. c \in Callers /\ OncePer(calls[c], closer[c]) /\ calls[c] \in CallType
      BY <1>2, CallIsTyped
  <2>2. CASE c \in held
    <3>1. calls[c].got = <<>> /\ calls[c].pc \notin {"idle", "found", "failed", "locked", "sent"}
        BY <1>5, <2>1, <2>2 DEF OncePer
    <3>2. Len(calls'[c].got) = 1
      <4>1. calls'[c].got = Append(<<>>, "destroyed")
          BY <1>5, <2>1, <2>2, <3>1
      <4>2. Len(Append(<<>>, "destroyed")) = 1
          OBVIOUS
      <4> QED
          BY <4>1, <4>2
    <3> QED
        BY <1>5, <2>1, <2>2, <3>1, <3>2 DEF OncePer
  <2>3. CASE c \notin held
      BY <1>5, <2>1, <2>3 DEF OncePer
  <2> QED
      BY <2>2, <2>3
<1>11. ReferencesArePaired'
  <2>1. {c \in Callers : Runs(calls'[c])} = {c \in Callers : Runs(calls[c])}
      BY <1>5 DEF Runs
  <2>2. H1 = H \ held /\ held \subseteq H
      BY <1>2, <1>5, <1>6 DEF Holds
  <2>3. IsFiniteSet(H) /\ IsFiniteSet({c \in Callers : Runs(calls[c])})
    <3>1. IsFiniteSet(Callers)
        BY CallersAreFinite, FS_Union, Zenon DEF Callers
    <3> QED
        BY <3>1, CallersAreFinite, FS_Subset
  <2>4. cx.refs = Cardinality({c \in Callers : Runs(calls[c])}) + Cardinality(H)
      BY DEF ConnInv, ReferencesArePaired, Runs, Holds
  <2>5. Cardinality(H1) = Cardinality(H) - Cardinality(held)
    <3>1. H \cap held = held
        BY <2>2
    <3> HIDE DEF H, H1
    <3> QED
      <4>1. Cardinality(H \ held) = Cardinality(H) - Cardinality(H \cap held)
          BY <2>3, FS_Difference
      <4> QED
          BY <2>2, <3>1, <4>1
  <2>6. Cardinality(H) \in Nat /\ Cardinality({c \in Callers : Runs(calls[c])}) \in Nat
      BY <2>3, FS_CardinalityType
  <2>7. cx'.refs = Cardinality({c \in Callers : Runs(calls'[c])}) + Cardinality(H1)
    <3> DEFINE h == Cardinality(H)
               h1 == Cardinality(H1)
               n == Cardinality(held)
               m == Cardinality({c \in Callers : Runs(calls[c])})
    <3>1. h1 = h - n /\ h \in Nat /\ m \in Nat /\ n \in Nat /\ cx.refs = m + h /\ cx'.refs = cx.refs - n
        BY <1>7, <1>8, <2>4, <2>5, <2>6
    <3> HIDE DEF h, h1, n, m
    <3>2. cx'.refs = m + h1
        BY <3>1
    <3> QED
        BY <2>1, <3>2 DEF m, h1
  <2> QED
      BY <2>7 DEF ReferencesArePaired, Runs, Holds
<1>12. Ordered'
  <2>1. ASSUME NEW c \in Invokes PROVE CallMoves(calls[c], calls'[c], c)
    <3>1. c \in Callers /\ calls'[c] \in CallType
        BY <1>2, <1>5
    <3>2. calls'[c].got = Append(calls[c].got, "destroyed") \/ calls'[c].got = calls[c].got
        BY <3>1, <1>5
    <3>3. \A i \in DOMAIN calls'[c].got : calls'[c].got[i] \in Invokes \ {c} => cx.raced
        BY <3>1, <3>2, WordMoves
    <3> QED
        BY <3>1, <3>3, <1>5 DEF CallMoves
  <2>2. /\ \A rank \in [Invokes -> Nat] : SeqsRanked(rank) => SeqsRanked(rank)'
        /\ Flight' = Flight
      BY <1>1, <1>8, SameFlight
  <2>3. Listening' => Listening
      BY <1>8 DEF Listening
  <2> QED
      BY <1>8, <2>1, <2>2, <2>3, OrderStep DEF ConnInv
<1> QED
    BY <1>9, <1>10, <1>11, <1>12 DEF ConnInv

-----------------------------------------------------------------------------
\* handle_read

\* The first message is taken out of the socket.
LEMMA InboxTail ==
    ASSUME ConnInv, wire.inbox # <<>>, wire' = [wire EXCEPT !.inbox = Tail(wire.inbox)]
    PROVE  /\ wire' \in WireType /\ wire'.inbox = Tail(wire.inbox) /\ wire'.asked = wire.asked
           /\ Range(wire.inbox) = Range(wire'.inbox) \cup {Head(wire.inbox)}
           /\ Head(wire.inbox) \in Arrives
           /\ \A rank : Ascending(wire.inbox, rank) => Ascending(wire'.inbox, rank)
           /\ \A rank, t : Below(wire.inbox, t, rank) => Below(wire'.inbox, t, rank)
<1> DEFINE b == Tail(wire.inbox)
<1>1. wire \in WireType /\ wire.inbox \in Seq(Arrives)
    BY FlightTyped
<1>2. /\ b \in Seq(Arrives) /\ Head(wire.inbox) \in Arrives
      /\ Range(wire.inbox) = Range(b) \cup {Head(wire.inbox)}
    BY <1>1, TailFacts
<1>3. \A rank : Ascending(wire.inbox, rank) => Ascending(b, rank)
    BY <1>1, AscendingTail
<1>4. \A rank, t : Below(wire.inbox, t, rank) => Below(b, t, rank)
    BY <1>1, BelowTail
<1>5. wire' = [wire EXCEPT !.inbox = b]
    OBVIOUS
<1> HIDE DEF b
<1>6. wire' \in WireType /\ wire'.inbox = b /\ wire'.asked = wire.asked
    BY <1>1, <1>2, <1>5, Zenon DEF WireType
<1> QED
    BY <1>2, <1>3, <1>4, <1>6 DEF b

\* A message that no handler gets: it is no response, or it is the last one read.
LEMMA ReadQuietStep ==
    ASSUME ConnInv, wire.inbox # <<>>, wire' = [wire EXCEPT !.inbox = Tail(wire.inbox)],
           UNCHANGED <<calls, closer>>, Quiet(cx, cx'), Listening' => Head(wire.inbox) \notin Invokes
    PROVE  ConnInv'
<1>1. /\ wire' \in WireType /\ wire'.asked = wire.asked
      /\ Range(wire.inbox) = Range(wire'.inbox) \cup {Head(wire.inbox)}
      /\ \A rank : Ascending(wire.inbox, rank) => Ascending(wire'.inbox, rank)
      /\ \A rank, t : Below(wire.inbox, t, rank) => Below(wire'.inbox, t, rank)
    BY InboxTail
<1>2. /\ cx' \in CxType /\ cx'.refs = cx.refs /\ cx'.raced = cx.raced /\ cx'.handlers = cx.handlers
      /\ cx'.queue = cx.queue /\ (cx'.writing => cx'.queue # <<>>)
    BY FlightTyped DEF Quiet
<1>3. Listening' => Listening
    BY DEF Quiet, Listening
<1>4. \A rank \in [Invokes -> Nat] : SeqsRanked(rank) => SeqsRanked(rank)'
    BY <1>1, <1>2 DEF SeqsRanked
<1>5. \A c : c \in Flight' => c \in Flight
    BY <1>1, <1>2 DEF Flight
<1>6. Listening' => \A c \in Invokes : c \in Flight => c \in Flight'
    BY <1>1, <1>2 DEF Flight
<1> QED
    BY <1>1, <1>2, <1>3, <1>4, <1>5, <1>6, FlightStep

\* A request of the peer is answered.
LEMMA ReadRequestStep ==
    ASSUME ConnInv, wire.inbox # <<>>, wire' = [wire EXCEPT !.inbox = Tail(wire.inbox)],
           UNCHANGED <<calls, closer>>, Head(wire.inbox) \notin Invokes,
           cx' = DoSend(ResetTimer(cx), "answer")
    PROVE  ConnInv'
<1>1. /\ wire' \in WireType /\ wire'.asked = wire.asked
      /\ Range(wire.inbox) = Range(wire'.inbox) \cup {Head(wire.inbox)}
      /\ \A rank : Ascending(wire.inbox, rank) => Ascending(wire'.inbox, rank)
      /\ \A rank, t : Below(wire.inbox, t, rank) => Below(wire'.inbox, t, rank)
    BY InboxTail
<1> DEFINE x == ResetTimer(cx)
<1>2. /\ x \in CxType /\ x.refs = cx.refs /\ x.raced = cx.raced /\ x.handlers = cx.handlers
      /\ x.queue = cx.queue /\ x.shut = cx.shut /\ x.reading = cx.reading
    BY FlightTyped, ResetTimerQuiet DEF Quiet
<1>3. cx' = DoSend(x, "answer") /\ "answer" \in Items /\ cx.queue \in Seq(Items)
    BY FlightTyped DEF Items
<1> HIDE DEF x
<1>4. /\ cx' \in CxType /\ cx'.refs = x.refs /\ cx'.handlers = x.handlers /\ cx'.raced = x.raced
      /\ cx'.shut = x.shut /\ cx'.reading = x.reading /\ cx'.queue = Append(x.queue, "answer")
  <2> DEFINE y == DoSend(x, "answer")
  <2>1. /\ y \in CxType /\ y.refs = x.refs /\ y.handlers = x.handlers /\ y.raced = x.raced
        /\ y.shut = x.shut /\ y.reading = x.reading /\ y.queue = Append(x.queue, "answer")
      BY <1>2, <1>3, DoSendFields, Zenon
  <2>2. cx' = y
      BY <1>3
  <2> HIDE DEF y
  <2> QED
      BY <2>1, <2>2
<1>5. cx'.queue # <<>>
  <2>1. Append(cx.queue, "answer") # <<>>
      BY <1>3, AppendFacts
  <2> QED
      BY <1>2, <1>4, <2>1
<1>6. Range(wire'.inbox) \cap Invokes = Range(wire.inbox) \cap Invokes
    BY <1>1
<1>7. /\ \A rank \in [Invokes -> Nat] : SeqsRanked(rank) => SeqsRanked(rank)'
      /\ \A c \in Invokes : c \in Flight' <=> c \in Flight
    BY <1>1, <1>2, <1>4, <1>6, WordQueued
<1>8. Listening' => Listening
    BY <1>2, <1>4 DEF Listening
<1> QED
    BY <1>1, <1>2, <1>4, <1>5, <1>7, <1>8, FlightStep

\* Unless there was a race, the first handler is the one whose response it is.
LEMMA FirstIsAsked ==
    ASSUME ConnInv, Listening, wire.inbox # <<>>, NEW c \in Invokes, c = Head(wire.inbox),
           ~cx.raced, c \in Range(cx.handlers), cx.handlers # <<>>, CancelTimer(calls[Head(cx.handlers)])
    PROVE  Head(cx.handlers) = c /\ Range(cx.handlers) \subseteq Flight
<1> DEFINE f == Head(cx.handlers)
<1>1. /\ cx.handlers \in Seq(Invokes) /\ wire.inbox \in Seq(Arrives)
    BY FlightTyped
<1>2. /\ f \in Invokes /\ f = cx.handlers[1] /\ 1 \in DOMAIN cx.handlers
      /\ \A i \in DOMAIN cx.handlers : i = 1 \/ 1 < i
    BY <1>1, TailFacts
<1>3. /\ c = wire.inbox[1] /\ 1 \in DOMAIN wire.inbox
      /\ \A i \in DOMAIN wire.inbox : i = 1 \/ 1 < i
    BY <1>1, TailFacts
<1>4. Range(cx.handlers) \subseteq Flight
    BY DEF ConnInv, Ordered, Awaited
<1>5. f \in Flight
    BY <1>2, <1>4 DEF Range
<1> HIDE DEF f
<1>6. PICK rank \in [Invokes -> Nat], n \in Nat : RankedBy(rank, n)
    BY DEF ConnInv, Ordered, Ranked
<1>7. ASSUME f # c PROVE rank[f] < rank[c]
  <2>1. PICK i \in DOMAIN cx.handlers : cx.handlers[i] = c
      BY DEF Range
  <2>2. 1 < i
      BY <1>2, <1>7, <2>1
  <2> QED
      BY <1>2, <1>6, <2>1, <2>2 DEF RankedBy, Ascending
<1>8. ASSUME f # c PROVE rank[c] < rank[f]
  <2>1. CASE f \in Range(wire.inbox)
    <3>1. PICK i \in DOMAIN wire.inbox : wire.inbox[i] = f
        BY <2>1 DEF Range
    <3>2. 1 < i
        BY <1>3, <1>8, <3>1
    <3> QED
        BY <1>2, <1>3, <1>6, <3>1, <3>2 DEF RankedBy, Ascending
  <2>2. CASE f \in Range(wire.asked)
    <3>1. PICK i \in DOMAIN wire.asked : wire.asked[i] = f
        BY <2>2 DEF Range
    <3> QED
        BY <1>2, <1>3, <1>6, <3>1 DEF RankedBy, Below
  <2>3. CASE f \in Range(cx.queue)
    <3>1. PICK i \in DOMAIN cx.queue : cx.queue[i] = f
        BY <2>3 DEF Range
    <3> QED
        BY <1>2, <1>3, <1>6, <3>1 DEF RankedBy, Below
  <2> QED
      BY <1>5, <2>1, <2>2, <2>3 DEF Flight
<1>9. f = c
  <2>1. rank[f] \in Nat /\ rank[c] \in Nat
      BY <1>2
  <2> QED
      BY <1>7, <1>8, <2>1
<1> QED
    BY <1>4, <1>9 DEF f

\* A response has been read and f, the first handler, asked to take it: it
\* took it and is gone, or it could not and nobody gets it.
LEMMA ResponseOrdered ==
    ASSUME ConnInv, Listening, wire.inbox # <<>>, wire' = [wire EXCEPT !.inbox = Tail(wire.inbox)],
           NEW c \in Invokes, c = Head(wire.inbox), cx'.queue = cx.queue,
           cx'.raced = (cx.raced \/ c \notin Range(cx.handlers)),
           \A d \in Invokes : calls'[d].pc = calls[d].pc,
           \A d \in Invokes : \A i \in DOMAIN calls'[d].got :
                calls'[d].got[i] \in Invokes \ {d} => cx'.raced,
           \/ /\ cx'.handlers = cx.handlers
              /\ cx.handlers # <<>> => ~CancelTimer(calls'[Head(cx.handlers)])
           \/ /\ cx.handlers # <<>> /\ cx'.handlers = Tail(cx.handlers)
              /\ ~cx'.raced => Head(cx.handlers) = c /\ Range(cx.handlers) \subseteq Flight
    PROVE  Ordered'
<1>1. /\ wire'.asked = wire.asked /\ Range(wire.inbox) = Range(wire'.inbox) \cup {c}
      /\ \A rank : Ascending(wire.inbox, rank) => Ascending(wire'.inbox, rank)
      /\ \A rank, t : Below(wire.inbox, t, rank) => Below(wire'.inbox, t, rank)
    BY InboxTail
<1>2. cx.handlers \in Seq(Invokes) /\ cx.raced \in BOOLEAN
    BY FlightTyped
<1>3. ~cx'.raced => ~cx.raced /\ c \in Range(cx.handlers)
    BY <1>2, Zenon
<1>4. cx.raced => cx'.raced
    BY Zenon
<1>5. \A d : d \in Flight <=> d \in Flight' \/ d = c
    BY <1>1 DEF Flight
<1>6. PICK rank \in [Invokes -> Nat], n \in Nat : RankedBy(rank, n)
    BY DEF ConnInv, Ordered, Ranked
<1>7. ~cx'.raced => calls[c].pc \notin {"sent", "built"}
  <2> SUFFICES ASSUME ~cx'.raced, calls[c].pc \in {"sent", "built"} PROVE FALSE
      OBVIOUS
  <2>1. PICK i \in DOMAIN cx.handlers : cx.handlers[i] = c
      BY <1>3 DEF Range
  <2>2. rank[c] < rank[c]
      BY <1>3, <1>6, <2>1 DEF RankedBy
  <2>3. rank[c] \in Nat
      OBVIOUS
  <2> QED
      BY <2>2, <2>3
<1>8. /\ ~cx'.raced => Ascending(cx'.handlers, rank)
      /\ \A i \in DOMAIN cx'.handlers : \E j \in DOMAIN cx.handlers : cx.handlers[j] = cx'.handlers[i]
  <2>1. CASE cx'.handlers = cx.handlers
      BY <1>3, <1>6, <2>1 DEF RankedBy
  <2>2. CASE cx.handlers # <<>> /\ cx'.handlers = Tail(cx.handlers)
    <3>1. ~cx'.raced => Ascending(Tail(cx.handlers), rank)
        BY <1>2, <1>3, <1>6, <2>2, AscendingTail DEF RankedBy
    <3>2. \A i \in DOMAIN Tail(cx.handlers) : i + 1 \in DOMAIN cx.handlers /\ cx.handlers[i + 1] = Tail(cx.handlers)[i]
        BY <1>2, <2>2, TailFacts
    <3> QED
        BY <2>2, <3>1, <3>2
  <2> QED
      BY <2>1, <2>2
<1>9. Range(cx'.handlers) \subseteq Range(cx.handlers)
    BY <1>8 DEF Range
<1>10. Ranked'
  <2>1. ASSUME ~cx'.raced, NEW i \in DOMAIN cx'.handlers, NEW d \in Invokes, calls'[d].pc \in {"sent", "built"}
        PROVE  rank[cx'.handlers[i]] < rank[d]
    <3>1. PICK j \in DOMAIN cx.handlers : cx.handlers[j] = cx'.handlers[i]
        BY <1>8, <2>1
    <3>2. calls[d].pc \in {"sent", "built"}
        BY <2>1
    <3> QED
        BY <1>3, <1>6, <2>1, <3>1, <3>2 DEF RankedBy
  <2>2. RankedBy(rank, n)'
      BY <1>1, <1>6, <1>8, <2>1 DEF RankedBy
  <2> QED
      BY <2>2 DEF Ranked
<1>11. OwnAnswer'
    BY DEF OwnAnswer
<1>12. Awaited'
  <2> SUFFICES ASSUME ~cx'.raced
               PROVE  /\ \A d \in Invokes : calls'[d].pc \in {"sent", "built"} => d \in Flight'
                      /\ cx'.handlers # <<>> /\ CancelTimer(calls'[Head(cx'.handlers)]) =>
                            Range(cx'.handlers) \subseteq Flight'
      BY DEF Awaited
  <2>1. ASSUME NEW d \in Invokes, calls'[d].pc \in {"sent", "built"} PROVE d \in Flight'
    <3>1. calls[d].pc \in {"sent", "built"}
        BY <2>1
    <3>2. d \in Flight
        BY <1>3, <3>1 DEF ConnInv, Ordered, Awaited
    <3>3. d # c
        BY <1>7, <3>1
    <3> QED
        BY <1>5, <3>2, <3>3
  <2>2. CASE cx'.handlers = cx.handlers /\ (cx.handlers # <<>> => ~CancelTimer(calls'[Head(cx.handlers)]))
      BY <2>1, <2>2
  <2>3. CASE cx.handlers # <<>> /\ cx'.handlers = Tail(cx.handlers) /\ Head(cx.handlers) = c
             /\ Range(cx.handlers) \subseteq Flight
    <3> SUFFICES ASSUME NEW d \in Range(cx'.handlers) PROVE d \in Flight'
        BY <2>1
    <3>1. /\ c = cx.handlers[1] /\ 1 \in DOMAIN cx.handlers
          /\ \A i \in DOMAIN Tail(cx.handlers) :
                i + 1 \in DOMAIN cx.handlers /\ 1 < i + 1 /\ Tail(cx.handlers)[i] = cx.handlers[i + 1]
        BY <1>2, <2>3, TailFacts
    <3>2. PICK i \in DOMAIN Tail(cx.handlers) : Tail(cx.handlers)[i] = d
        BY <2>3 DEF Range
    <3>3. d \in Invokes /\ d \in Flight
        BY <1>2, <1>9, <2>3, <3>1, <3>2 DEF Range
    <3>4. rank[c] < rank[d] /\ rank[c] \in Nat
        BY <1>3, <1>6, <3>1, <3>2, <3>3 DEF RankedBy, Ascending
    <3>5. d # c
        BY <3>4
    <3> QED
        BY <1>5, <3>3, <3>5
  <2> QED
      BY <2>2, <2>3
<1>13. \A d \in Unsent' : d \notin Flight' /\ d \notin Range(cx'.handlers)
  <2> SUFFICES ASSUME NEW d \in Invokes, calls'[d].pc \in {"idle", "found", "failed", "locked"}
               PROVE  d \notin Flight' /\ d \notin Range(cx'.handlers)
      BY DEF Unsent
  <2>1. d \in Unsent
      BY DEF Unsent
  <2> QED
      BY <1>5, <1>9, <2>1 DEF ConnInv, Ordered
<1> QED
    BY <1>10, <1>11, <1>12, <1>13 DEF Ordered

\* The reset timer and the note of a race.
LEMMA RaceFields ==
    ASSUME NEW x \in CxType, NEW b \in BOOLEAN
    PROVE  LET y == [ResetTimer(x) EXCEPT !.raced = b]
           IN  /\ y \in CxType /\ y.refs = x.refs /\ y.handlers = x.handlers /\ y.raced = b
               /\ y.queue = x.queue /\ y.shut = x.shut /\ y.reading = x.reading /\ (y.writing => x.writing)
<1> DEFINE r == ResetTimer(x)
<1>1. Quiet(x, r) /\ r.shut = x.shut /\ r.reading = x.reading
    BY ResetTimerQuiet
<1>2. r \in CxType
    BY <1>1 DEF Quiet
<1> HIDE DEF r
<1> DEFINE y == [r EXCEPT !.raced = b]
<1>3. /\ y \in CxType /\ y.refs = r.refs /\ y.handlers = r.handlers /\ y.raced = b
      /\ y.queue = r.queue /\ y.shut = r.shut /\ y.reading = r.reading /\ y.writing = r.writing
    BY <1>2, Zenon DEF CxType
<1> HIDE DEF y
<1>4. /\ y \in CxType /\ y.refs = x.refs /\ y.handlers = x.handlers /\ y.raced = b
      /\ y.queue = x.queue /\ y.shut = x.shut /\ y.reading = x.reading /\ (y.writing => x.writing)
    BY <1>1, <1>3 DEF Quiet
<1> QED
    BY <1>4 DEF r, y

\* The first handler takes the response.
LEMMA TakenFields ==
    ASSUME NEW k \in CallType, NEW c \in Invokes, k.got = <<>>
    PROVE  LET l == [CallBack(k, c) EXCEPT !.tried = TRUE, !.timer = "off"]
           IN  l \in CallType /\ l.pc = k.pc /\ l.timer = "off" /\ l.got = <<c>> /\ Len(l.got) = 1
<1> DEFINE m == CallBack(k, c)
<1>1. c \in Results
    BY DEF Results
<1>2. m \in CallType /\ m.pc = k.pc /\ m.got = Append(k.got, c)
    BY <1>1, CallBackFields
<1>3. m.got = <<c>>
    BY <1>2
<1> HIDE DEF m
<1> DEFINE l == [m EXCEPT !.tried = TRUE, !.timer = "off"]
<1>4. l \in CallType /\ l.pc = m.pc /\ l.timer = "off" /\ l.got = m.got
    BY <1>2, Zenon DEF CallType
<1> HIDE DEF l
<1>5. l \in CallType /\ l.pc = k.pc /\ l.timer = "off" /\ l.got = <<c>> /\ Len(l.got) = 1
    BY <1>2, <1>3, <1>4
<1> QED
    BY <1>5 DEF l, m

LEMMA TakenCxFields ==
    ASSUME NEW x \in CxType, x.handlers # <<>>
    PROVE  LET y == FinishOuterCall([x EXCEPT !.handlers = Tail(@)])
           IN  /\ y \in CxType /\ y.refs = x.refs - 1 /\ y.handlers = Tail(x.handlers) /\ y.raced = x.raced
               /\ y.queue = x.queue /\ y.writing = x.writing
<1> DEFINE t == Tail(x.handlers)
           u == [x EXCEPT !.handlers = t]
           y == [u EXCEPT !.refs = u.refs - 1]
<1>1. x.handlers \in Seq(Invokes) /\ x.refs \in Int
    BY DEF CxType
<1>2. t \in Seq(Invokes)
    BY <1>1
<1>3. FinishOuterCall([x EXCEPT !.handlers = Tail(@)]) = y
    BY DEF FinishOuterCall
<1> HIDE DEF t
<1>4. u \in CxType /\ u.refs = x.refs /\ u.handlers = t /\ u.raced = x.raced /\ u.queue = x.queue /\ u.writing = x.writing
    BY <1>2, Zenon DEF CxType
<1> HIDE DEF u
<1>5. u.refs - 1 \in Int
    BY <1>1, <1>4
<1>6. /\ y \in CxType /\ y.refs = u.refs - 1 /\ y.handlers = u.handlers /\ y.raced = u.raced /\ y.queue = u.queue
      /\ y.writing = u.writing
    BY <1>4, <1>5, Zenon DEF CxType
<1> HIDE DEF y
<1>7. /\ y \in CxType /\ y.refs = x.refs - 1 /\ y.handlers = t /\ y.raced = x.raced
      /\ y.queue = x.queue /\ y.writing = x.writing
    BY <1>4, <1>6
<1> QED
    BY <1>3, <1>7 DEF t

\* A response: handle_recv's part for an invoke's answer.
LEMMA ReadResponseStep ==
    ASSUME ConnInv, Listening, wire.inbox # <<>>, wire' = [wire EXCEPT !.inbox = Tail(wire.inbox)],
           closer' = closer, NEW c \in Invokes, c = Head(wire.inbox), ReadResponse(c)
    PROVE  ConnInv'
<1> DEFINE race == cx.raced \/ c \notin Range(cx.handlers)
           x == [ResetTimer(cx) EXCEPT !.raced = race]
<1>1. /\ cx \in CxType /\ cx.handlers \in Seq(Invokes) /\ cx.raced \in BOOLEAN /\ cx.refs \in Int
      /\ (cx.writing => cx.queue # <<>>)
    BY FlightTyped
<1>2. race \in BOOLEAN /\ (race <=> cx.raced \/ c \notin Range(cx.handlers))
    BY <1>1 DEF Range
<1>3. ResetTimer(cx).raced = cx.raced
    BY <1>1, ResetTimerQuiet DEF Quiet
<1>4. x = [ResetTimer(cx) EXCEPT !.raced = @ \/ c \notin Range(cx.handlers)]
  <2>1. race = (ResetTimer(cx).raced \/ c \notin Range(cx.handlers))
      BY <1>1, <1>2, <1>3, Zenon
  <2> HIDE DEF race
  <2> QED
      BY <2>1
<1>5. /\ x \in CxType /\ x.refs = cx.refs /\ x.handlers = cx.handlers /\ x.raced = race
      /\ x.queue = cx.queue /\ x.shut = cx.shut /\ x.reading = cx.reading /\ (x.writing => cx.writing)
  <2> HIDE DEF race
  <2> QED
      BY <1>1, <1>2, RaceFields, Zenon
<1>6. wire' \in WireType
    BY InboxTail
<1> HIDE DEF x
<1>7. CASE cx.handlers # <<>>
  <2> DEFINE f == Head(cx.handlers)
  <2>1. f \in Invokes /\ f \in Callers /\ f \in Range(cx.handlers)
      BY <1>1, <1>7, TailFacts DEF Callers
  <2>2. calls[f] \in CallType /\ OncePer(calls[f], closer[f])
      BY <2>1, CallIsTyped
  <2>3. CASE CancelTimer(calls[f])
    <3> DEFINE k == [CallBack(calls[f], c) EXCEPT !.tried = TRUE, !.timer = "off"]
    <3>1. calls' = [calls EXCEPT ![f] = k] /\ cx' = FinishOuterCall([x EXCEPT !.handlers = Tail(@)])
        BY <1>4, <1>7, <2>3 DEF ReadResponse, AnswerTo
    <3>2. /\ cx' \in CxType /\ cx'.refs = cx.refs - 1 /\ cx'.handlers = Tail(cx.handlers) /\ cx'.raced = race
          /\ cx'.queue = cx.queue /\ (cx'.writing => cx'.queue # <<>>)
        BY <1>1, <1>5, <1>7, <3>1, TakenCxFields
    <3> HIDE DEF f
    <3>3. calls[f].timer = "armed" /\ calls[f].got = <<>>
        BY <2>2, <2>3 DEF CancelTimer, OncePer
    <3>4. k \in CallType /\ k.pc = calls[f].pc /\ k.timer = "off" /\ k.got = <<c>> /\ Len(k.got) = 1
        BY <2>2, <3>3, TakenFields, Zenon
    <3> HIDE DEF k
    <3>5. ConnTyped'
        BY <1>6, <2>1, <3>1, <3>2, <3>4 DEF ConnInv, ConnTyped
    <3>6. Once'
      <4>1. OncePer(k, closer'[f])
          BY <2>2, <3>3, <3>4 DEF OncePer
      <4> QED
          BY <2>1, <3>1, <4>1, OnceStep, Zenon DEF ConnInv
    <3>7. ReferencesArePaired'
      <4>1. RefsFollow(f, k, cx'.refs)
          BY <2>1, <3>2, <3>3, <3>4 DEF RefsFollow, Runs, Holds
      <4> QED
          BY <2>1, <3>1, <4>1, PairedStep, Zenon DEF ConnInv
    <3>8. ~race => f = c /\ Range(cx.handlers) \subseteq Flight
        BY <1>7, <2>3, FirstIsAsked DEF f
    <3>9. \A d \in Invokes : calls'[d] = IF d = f THEN k ELSE calls[d]
        BY <3>1 DEF ConnInv, ConnTyped, Callers
    <3>10. \A d \in Invokes : calls'[d].pc = calls[d].pc
        BY <3>4, <3>9
    <3>11. \A d \in Invokes : \A i \in DOMAIN calls'[d].got :
                calls'[d].got[i] \in Invokes \ {d} => cx'.raced
      <4> SUFFICES ASSUME NEW d \in Invokes, NEW i \in DOMAIN calls'[d].got,
                          calls'[d].got[i] \in Invokes \ {d}
                   PROVE  race
          BY <3>2, Zenon
      <4>1. CASE d = f
        <5>1. i \in DOMAIN <<c>> /\ <<c>>[i] \in Invokes \ {f}
            BY <3>4, <3>9, <4>1
        <5>2. c # f
            BY <5>1
        <5> QED
            BY <3>8, <5>2
      <4>2. CASE d # f
          BY <3>9, <4>2 DEF ConnInv, Ordered, OwnAnswer
      <4> QED
          BY <4>1, <4>2
    <3>12. Ordered'
        BY <1>7, <3>2, <3>8, <3>10, <3>11, ResponseOrdered, Zenon DEF f
    <3> QED
        BY <3>5, <3>6, <3>7, <3>12 DEF ConnInv
  <2>4. CASE ~CancelTimer(calls[f])
    <3> DEFINE k == [calls[f] EXCEPT !.tried = TRUE]
    <3>1. calls' = [calls EXCEPT ![f] = k] /\ cx' = x
        BY <1>4, <1>7, <2>4 DEF ReadResponse, AnswerTo
    <3> HIDE DEF f
    <3>2. k \in CallType /\ k.pc = calls[f].pc /\ k.timer = calls[f].timer /\ k.got = calls[f].got /\ k.tried
        BY <2>2, Zenon DEF CallType
    <3> HIDE DEF k
    <3>3. ConnTyped'
        BY <1>1, <1>5, <1>6, <2>1, <3>1, <3>2 DEF ConnInv, ConnTyped
    <3>4. Once'
      <4>1. OncePer(k, closer'[f])
          BY <2>2, <3>2 DEF OncePer
      <4> QED
          BY <2>1, <3>1, <4>1, OnceStep, Zenon DEF ConnInv
    <3>5. ReferencesArePaired'
      <4>1. RefsFollow(f, k, cx'.refs)
          BY <1>5, <3>1, <3>2 DEF RefsFollow, Runs, Holds
      <4> QED
          BY <2>1, <3>1, <4>1, PairedStep, Zenon DEF ConnInv
    <3>6. \A d \in Invokes : calls'[d] = IF d = f THEN k ELSE calls[d]
        BY <3>1 DEF ConnInv, ConnTyped, Callers
    <3>7. /\ \A d \in Invokes : calls'[d].pc = calls[d].pc
          /\ \A d \in Invokes : \A i \in DOMAIN calls'[d].got :
                calls'[d].got[i] \in Invokes \ {d} => cx'.raced
      <4>1. \A d \in Invokes : calls'[d].pc = calls[d].pc /\ calls'[d].got = calls[d].got
          BY <3>2, <3>6
      <4>2. cx.raced => cx'.raced
          BY <1>5, <3>1, Zenon
      <4> QED
          BY <4>1, <4>2 DEF ConnInv, Ordered, OwnAnswer
    <3>8. ~CancelTimer(calls'[f])
        BY <2>1, <3>2, <3>6 DEF CancelTimer
    <3>9. cx'.handlers = cx.handlers /\ cx'.queue = cx.queue /\ cx'.raced = race
        BY <1>5, <3>1
    <3>10. Ordered'
        BY <3>7, <3>8, <3>9, ResponseOrdered DEF f
    <3> QED
        BY <3>3, <3>4, <3>5, <3>10 DEF ConnInv
  <2> QED
      BY <2>3, <2>4
<1>8. CASE cx.handlers = <<>>
  <2>1. calls' = calls /\ (cx' = Refused(cx) \/ cx' = x)
      BY <1>4, <1>8 DEF ReadResponse
  <2>2. CASE cx' = Refused(cx)
    <3>1. Quiet(cx, cx') /\ ~cx'.reading
        BY <1>1, <2>2, RefusedQuiet
    <3>2. ~Listening'
        BY <3>1 DEF Listening
    <3> QED
        BY <2>1, <3>1, <3>2, ReadQuietStep
  <2>3. CASE cx' = x
    <3>1. ConnTyped'
        BY <1>1, <1>5, <1>6, <2>1, <2>3 DEF ConnInv, ConnTyped
    <3>2. Once'
        BY <2>1 DEF ConnInv, Once
    <3>3. ReferencesArePaired'
        BY <1>5, <2>1, <2>3 DEF ConnInv, ReferencesArePaired
    <3>4. /\ \A d \in Invokes : calls'[d].pc = calls[d].pc
          /\ \A d \in Invokes : \A i \in DOMAIN calls'[d].got :
                calls'[d].got[i] \in Invokes \ {d} => cx'.raced
        BY <1>5, <2>1, <2>3, Zenon DEF ConnInv, Ordered, OwnAnswer
    <3>5. cx'.handlers = cx.handlers /\ cx'.queue = cx.queue /\ cx'.raced = race
        BY <1>5, <2>3
    <3>6. Ordered'
        BY <1>8, <3>4, <3>5, ResponseOrdered
    <3> QED
        BY <3>1, <3>2, <3>3, <3>6 DEF ConnInv
  <2> QED
      BY <2>1, <2>2, <2>3
<1> QED
    BY <1>7, <1>8

LEMMA HandleReadStep ==
    ASSUME ConnInv, HandleRead
    PROVE  ConnInv'
<1> DEFINE item == Head(wire.inbox)
<1>1. /\ cx.reading /\ wire.inbox # <<>> /\ wire' = [wire EXCEPT !.inbox = Tail(wire.inbox)]
      /\ closer' = closer /\ cx \in CxType
    BY FlightTyped DEF HandleRead
<1>2. CASE cx.shut
  <2>1. cx' = [cx EXCEPT !.reading = FALSE] /\ calls' = calls
      BY <1>2 DEF HandleRead
  <2>2. Quiet(cx, cx')
      BY <1>1, <2>1, QuietFields, Zenon
  <2>3. ~Listening'
      BY <1>2, <2>2 DEF Quiet, Listening
  <2> QED
      BY <1>1, <2>1, <2>2, <2>3, ReadQuietStep
<1>3. CASE calls' = calls /\ cx' = Refused(cx)
  <2>1. Quiet(cx, cx') /\ ~cx'.reading
      BY <1>1, <1>3, RefusedQuiet
  <2>2. ~Listening'
      BY <2>1 DEF Listening
  <2> QED
      BY <1>1, <1>3, <2>1, <2>2, ReadQuietStep
<1>4. CASE ~cx.shut /\ item \in Invokes /\ ReadResponse(item)
  <2>1. Listening
      BY <1>1, <1>4 DEF Listening
  <2> QED
      BY <1>1, <1>4, <2>1, ReadResponseStep
<1>5. CASE calls' = calls /\ item \notin Invokes /\ cx' = DoSend(ResetTimer(cx), "answer")
    BY <1>1, <1>5, ReadRequestStep
<1>6. CASE calls' = calls /\ item \notin Invokes /\ cx' = ResetTimer(cx)
  <2>1. Quiet(cx, cx')
      BY <1>1, <1>6, ResetTimerQuiet
  <2> QED
      BY <1>1, <1>6, <2>1, ReadQuietStep
<1> QED
    BY <1>2, <1>3, <1>4, <1>5, <1>6 DEF HandleRead

-----------------------------------------------------------------------------
\* All steps

LEMMA ConnInvInit ==
    ASSUME ConnInit
    PROVE  ConnInv
<1>1. PICK s \in Scenarios : cx =
            [obj |-> "live", callers |-> s.callers, may |-> s.may, listed |-> TRUE,
             shut |-> FALSE, want |-> FALSE, ready |-> FALSE, closeCalled |-> FALSE,
             released |-> FALSE, refs |-> 0, queue |-> <<>>, writing |-> FALSE,
             reading |-> TRUE, posted |-> FALSE, armed |-> TRUE, due |-> FALSE,
             handlers |-> <<>>, releasing |-> "nobody", raced |-> FALSE, lost |-> FALSE]
    BY Zenon DEF ConnInit
<1>2. calls = [c \in Callers |-> [pc |-> "idle", timer |-> "none", tried |-> FALSE, got |-> <<>>]]
    BY DEF ConnInit
<1>3. closer = [a \in Closers |-> "off"] /\ wire = [asked |-> <<>>, inbox |-> <<>>, eof |-> FALSE, sent |-> 0]
    BY DEF ConnInit
<1>4. cx.queue = <<>> /\ cx.handlers = <<>> /\ cx.refs = 0 /\ ~cx.writing /\ wire.inbox = <<>> /\ wire.asked = <<>>
    BY <1>1, <1>3
<1>5. \A c \in Callers : calls[c].pc = "idle" /\ calls[c].timer = "none" /\ calls[c].got = <<>>
    BY <1>2
<1>6. ConnTyped
  <2>1. s.callers \in SUBSET Callers /\ s.may \in SUBSET Troubles
      BY ScenariosOK
  <2>2. cx \in CxType
      BY <1>1, <2>1 DEF CxType
  <2>3. calls \in [Callers -> CallType]
      BY <1>2 DEF CallType, Pcs
  <2>4. wire \in WireType
      BY <1>3 DEF WireType
  <2> QED
      BY <1>3, <1>4, <2>2, <2>3, <2>4 DEF ConnTyped
<1>7. Once
  <2>1. \A c \in Invokes : closer[c] = "off" /\ c \in Callers
      BY <1>3 DEF Closers, Callers
  <2> QED
      BY <1>5, <2>1 DEF Once, OncePer
<1>8. ReferencesArePaired
  <2> DEFINE R == {c \in Callers : calls[c].pc \in {"locked", "sent", "built", "leaving"}}
             H == {c \in Invokes : calls[c].timer \in {"armed", "due"}}
  <2>1. R = {} /\ H = {}
      BY <1>5 DEF Callers
  <2>2. Cardinality({}) = 0
      BY FS_EmptySet
  <2> HIDE DEF R, H
  <2>3. cx.refs = Cardinality(R) + Cardinality(H)
      BY <1>4, <2>1, <2>2
  <2> QED
      BY <2>3 DEF ReferencesArePaired, R, H
<1>9. Ordered
  <2>1. DOMAIN <<>> = {} /\ Range(<<>>) = {}
      BY DEF Range
  <2>2. Flight = {} /\ Range(cx.handlers) = {}
      BY <1>4, <2>1 DEF Flight
  <2>3. Ranked
    <3> DEFINE rank == [c \in Invokes |-> 0]
    <3>1. rank \in [Invokes -> Nat] /\ \A c \in Invokes : rank[c] <= 0
        OBVIOUS
    <3> HIDE DEF rank
    <3>2. RankedBy(rank, 0)
        BY <1>4, <2>1, <3>1 DEF RankedBy, Ascending, Below
    <3> QED
        BY <3>1, <3>2 DEF Ranked
  <2>4. Awaited
    <3>1. \A c \in Invokes : calls[c].pc \notin {"sent", "built"}
        BY <1>5 DEF Callers
    <3> QED
        BY <1>4, <3>1, Zenon DEF Awaited
  <2>5. OwnAnswer
      BY <1>5, <2>1 DEF OwnAnswer, Callers
  <2> QED
      BY <2>2, <2>3, <2>4, <2>5 DEF Ordered
<1> QED
    BY <1>6, <1>7, <1>8, <1>9 DEF ConnInv

LEMMA ConnInvStep ==
    ASSUME ConnInv, [ConnNext]_connVars
    PROVE  ConnInv'
<1>1. CASE \E c \in Callers : FindConnection(c)
    BY <1>1, FindConnectionStep
<1>2. CASE CallerStep
    BY <1>2, LockConnectionStep, NotifySendStep, RequestCallbackStep, LeaveCallStep,
       InvokeSendStep, BuildHandlerStep, PushHandlerStep DEF CallerStep
<1>3. CASE ThreadStep
    BY <1>2, <1>3, CloseActStep, ReleaseProtocolStep, ConnectionTimeoutStep, InvokeTimeoutStep,
       CallBackStarterStep, DestructStep DEF ThreadStep
<1>4. CASE TimeStep
    BY <1>4, TimerExpiresStep, InvokeTimerExpiresStep DEF TimeStep
<1>5. CASE Drop
    BY <1>5, DropStep
<1>6. CASE HandleWrite \/ HandleWriteError
    BY <1>6, HandleWriteStep, HandleWriteErrorStep
<1>7. CASE HandleRead \/ HandleReadEnd
    BY <1>7, HandleReadStep, HandleReadEndStep
<1>8. CASE Peer
    BY <1>8, PeerStep
<1>9. CASE UNCHANGED connVars
  <2>1. UNCHANGED <<cx, calls, closer, wire>>
      BY <1>9 DEF connVars
  <2>2. Quiet(cx, cx') /\ ClosersTyped(closer')
      BY <2>1, StrandTyped DEF Quiet
  <2> QED
      BY <2>1, <2>2, QuietStep
<1> QED
    BY <1>1, <1>3, <1>4, <1>5, <1>6, <1>7, <1>8, <1>9 DEF ConnNext

LEMMA ConnInvariant == ConnSpec => []ConnInv
BY ConnInvInit, ConnInvStep, PTL DEF ConnSpec

\* However many threads invoke, notify, time out and drop one connection, in
\* whatever order their steps, answers and errors fall: the callback of an
\* invoke is called at most once, the references taken by start_outer_call are
\* those that finish_outer_call still owes, and an invoke is given another
\* one's response only if requests and handlers were not added in one order.
THEOREM CallsAreExact == ConnSpec => []CallsExact
<1>1. ConnInv => CallsExact
  <2> SUFFICES ASSUME ConnInv PROVE CallsExact
      OBVIOUS
  <2>1. CalledBackOnce
      BY DEF ConnInv, Once, OncePer, CalledBackOnce, Delivered
  <2> QED
      BY <2>1 DEF ConnInv, Ordered, CallsExact
<1> QED
    BY <1>1, ConnInvariant, PTL

-----------------------------------------------------------------------------
(* The server.                                                             *)

\* One connection, as the server sees it.
ConnState ==
    [op : {"none", "pending", "ok", "error"}, ec : {"none", "ok", "error"},
     timer : {"none", "armed", "due", "off"}, closed : BOOLEAN, started : BOOLEAN,
     shut : BOOLEAN, want : BOOLEAN, queued : BOOLEAN, late : BOOLEAN, heard : BOOLEAN]

CallbackResults == {"ok", "fault", "aborted", "error"}

JobPcs == {"none", "connecting", "failed", "up", "back", "timer", "dead", "run", "wait", "connected",
        "started", "shaking"}

Job == [pc : JobPcs, cb : Seq(CallbackResults), c : ConnState]

\* A connect_async that has not called back has nothing started, and its
\* deadline has not closed anything as long as it can be cancelled.
AsyncOk(r) ==
    /\ r.pc \in {"none", "connecting", "failed", "up", "back"}
    /\ r.pc \in {"none", "connecting", "failed"} => r.cb = <<>> /\ ~r.c.started /\ ~r.c.shut
    /\ r.pc = "none" => r.c.timer = "none"
    /\ r.pc = "up" => r.cb = <<"ok">> /\ r.c.started
    /\ r.pc = "back" => Len(r.cb) = 1 /\ r.cb # <<"ok">> /\ ~r.c.started
    /\ r.c.timer \in {"none", "armed", "due"} => ~r.c.started /\ ~r.c.closed
    /\ r.c.started => ~r.c.closed

AcceptOk(r) ==
    /\ r.pc \in {"none", "up", "back"}
    /\ r.c.timer \in {"none", "off"}
    /\ r.pc = "none" => ~r.c.started /\ ~r.c.shut

\* Only a stop cancels a connection that is on its way to start.
IdleOk(r, running) ==
    /\ r.pc \in {"timer", "dead", "run", "wait", "connected", "started", "shaking", "back"}
    /\ r.c.timer \in {"none", "off"}
    /\ r.pc \in {"wait", "connected"} => ~r.c.started /\ ~r.c.queued /\ (running => ~r.c.shut)

JobOk(j, r, running) ==
    /\ r \in Job
    /\ j \in Asyncs => AsyncOk(r)
    /\ j \in Accepts => AcceptOk(r)
    /\ j \in Idles => IdleOk(r, running)

Running == sv.io = "running"

Open == {j \in Jobs : Counted(jobs[j].c)}

SvType ==
    [flag : BOOLEAN, io : {"running", "stopped"}, hosts : Int, listed : SUBSET Idles,
     parting : BOOLEAN]

ServerTyped ==
    /\ sv \in SvType
    /\ jobs \in [Jobs -> Job]

ServerInv ==
    /\ ServerTyped
    /\ \A j \in Jobs : JobOk(j, jobs[j], Running)
    /\ \A i \in sv.listed : jobs[i].pc \in {"wait", "connected"}
    /\ sv.hosts >= Cardinality(Open)
    /\ Running => sv.hosts = Cardinality(Open)

\* There are finitely many jobs, so the hosts can be counted.
LEMMA JobsFinite == IsFiniteSet(Jobs) /\ \A S \in SUBSET Jobs : IsFiniteSet(S) /\ Cardinality(S) \in Nat
<1>1. IsFiniteSet(Jobs)
    BY WorkersSuffice, JobsApart, FS_Union, Zenon DEF Jobs
<1> QED
    BY <1>1, FS_Subset, FS_CardinalityType

\* A set grows and shrinks by one.
LEMMA CardSteps ==
    ASSUME NEW S, IsFiniteSet(S), NEW x
    PROVE  /\ x \notin S => Cardinality(S \cup {x}) = Cardinality(S) + 1
           /\ x \in S => Cardinality(S \ {x}) = Cardinality(S) - 1
<1>1. x \notin S => Cardinality(S \cup {x}) = Cardinality(S) + 1
    BY FS_AddElement
<1>2. x \in S => Cardinality(S \ {x}) = Cardinality(S) - 1
    BY FS_RemoveElement
<1> QED
    BY <1>1, <1>2

\* One job changes to r.
LEMMA JobStep ==
    ASSUME NEW j \in Jobs, NEW r, jobs \in [Jobs -> Job], jobs' = [jobs EXCEPT ![j] = r]
    PROVE  /\ Cardinality(Open) \in Nat
           /\ Counted(jobs[j].c) /\ Counted(r.c) => Cardinality(Open') = Cardinality(Open)
           /\ ~Counted(jobs[j].c) /\ ~Counted(r.c) => Cardinality(Open') = Cardinality(Open)
           /\ ~Counted(jobs[j].c) /\ Counted(r.c) => Cardinality(Open') = Cardinality(Open) + 1
           /\ Counted(jobs[j].c) /\ ~Counted(r.c) => Cardinality(Open') = Cardinality(Open) - 1
<1>1. /\ jobs'[j] = r /\ \A k \in Jobs : k # j => jobs'[k] = jobs[k]
    OBVIOUS
<1>2. Open \subseteq Jobs /\ IsFiniteSet(Open) /\ Cardinality(Open) \in Nat
    BY JobsFinite DEF Open
<1>3. j \in Open <=> Counted(jobs[j].c)
    BY DEF Open
<1>4. Counted(r.c) => Open' = Open \cup {j}
    BY <1>1 DEF Open
<1>5. ~Counted(r.c) => Open' = Open \ {j}
    BY <1>1 DEF Open
<1>6. /\ j \notin Open => Cardinality(Open \cup {j}) = Cardinality(Open) + 1
      /\ j \in Open => Cardinality(Open \ {j}) = Cardinality(Open) - 1
    BY <1>2, CardSteps
<1>7. (j \notin Open => Open \ {j} = Open) /\ (j \in Open => Open \cup {j} = Open)
    OBVIOUS
<1> QED
    BY <1>2, <1>3, <1>4, <1>5, <1>6, <1>7, Zenon

\* What is left to show of a step that changes one job.
LEMMA OneJob ==
    ASSUME ServerInv, NEW j \in Jobs, NEW r, jobs' = [jobs EXCEPT ![j] = r],
           JobOk(j, r, Running'),
           sv' \in SvType,
           Running' = Running,
           sv'.listed \subseteq sv.listed \cup {j},
           j \in sv'.listed => r.pc \in {"wait", "connected"},
           \/ (Counted(jobs[j].c) <=> Counted(r.c)) /\ sv'.hosts = sv.hosts
           \/ ~Counted(jobs[j].c) /\ Counted(r.c) /\ sv'.hosts = sv.hosts + 1
           \/ Counted(jobs[j].c) /\ ~Counted(r.c) /\ sv'.hosts = sv.hosts - 1
           \/ ~Running /\ (Counted(jobs[j].c) <=> Counted(r.c)) /\ sv'.hosts = sv.hosts + 1
    PROVE  ServerInv'
<1>1. jobs \in [Jobs -> Job] /\ sv.hosts \in Int
    BY DEF ServerInv, ServerTyped, SvType
<1>2. r \in Job
    BY DEF JobOk
<1>3. jobs' \in [Jobs -> Job]
    BY <1>1, <1>2
<1>4. jobs'[j] = r /\ \A k \in Jobs : k # j => jobs'[k] = jobs[k]
    BY <1>1
<1>5. \A k \in Jobs : JobOk(k, jobs'[k], Running')
    BY <1>4 DEF ServerInv
<1>6. \A i \in sv'.listed : jobs'[i].pc \in {"wait", "connected"}
    BY <1>4 DEF ServerInv, Jobs
<1>7. sv'.hosts >= Cardinality(Open') /\ (Running' => sv'.hosts = Cardinality(Open'))
  <2> DEFINE n == Cardinality(Open)  m == Cardinality(Open')
  <2>1. n \in Nat /\ sv.hosts >= n /\ (Running => sv.hosts = n)
      BY <1>1, JobStep, Zenon DEF ServerInv
  <2>2. \/ (Counted(jobs[j].c) <=> Counted(r.c)) /\ m = n
        \/ ~Counted(jobs[j].c) /\ Counted(r.c) /\ m = n + 1
        \/ Counted(jobs[j].c) /\ ~Counted(r.c) /\ m = n - 1
      BY <1>1, JobStep, Zenon
  <2> HIDE DEF n, m
  <2>3. sv'.hosts >= m /\ (Running' => sv'.hosts = m)
    <3>1. CASE (Counted(jobs[j].c) <=> Counted(r.c)) /\ sv'.hosts = sv.hosts
      <4>1. m = n
          BY <2>2, <3>1
      <4> QED
          BY <2>1, <3>1, <4>1
    <3>2. CASE ~Counted(jobs[j].c) /\ Counted(r.c) /\ sv'.hosts = sv.hosts + 1
      <4>1. m = n + 1
          BY <2>2, <3>2
      <4> QED
          BY <1>1, <2>1, <3>2, <4>1
    <3>3. CASE Counted(jobs[j].c) /\ ~Counted(r.c) /\ sv'.hosts = sv.hosts - 1
      <4>1. m = n - 1
          BY <2>2, <3>3
      <4> QED
          BY <1>1, <2>1, <3>3, <4>1
    <3>4. CASE ~Running /\ (Counted(jobs[j].c) <=> Counted(r.c)) /\ sv'.hosts = sv.hosts + 1
      <4>1. m = n
          BY <2>2, <3>4
      <4> QED
          BY <1>1, <2>1, <3>4, <4>1
    <3> QED
        BY <3>1, <3>2, <3>3, <3>4
  <2> QED
      BY <2>3 DEF m
<1> QED
    BY <1>3, <1>5, <1>6, <1>7 DEF ServerInv, ServerTyped

\* The parts of a job, and the record an assignment to one of them leaves.
LEMMA JobFields ==
    ASSUME NEW r \in Job
    PROVE  /\ \A d \in ConnState : [r EXCEPT !.c = d] = [pc |-> r.pc, cb |-> r.cb, c |-> d]
           /\ \A p \in JobPcs : [r EXCEPT !.pc = p] = [pc |-> p, cb |-> r.cb, c |-> r.c]
           /\ r.pc \in JobPcs /\ r.cb \in Seq(CallbackResults) /\ r.c \in ConnState
  BY DEF Job

\* A record of the parts is a job.
LEMMA MakeJob ==
    ASSUME NEW p \in JobPcs, NEW b \in Seq(CallbackResults), NEW d \in ConnState
    PROVE  [pc |-> p, cb |-> b, c |-> d] \in Job
  BY DEF Job

\* Assignments to pc and c, one after the other.
LEMMA SetPcConn ==
    ASSUME NEW r \in Job, NEW p \in JobPcs, NEW d \in ConnState
    PROVE  [[r EXCEPT !.pc = p] EXCEPT !.c = d] = [pc |-> p, cb |-> r.cb, c |-> d]
<1> DEFINE q == [pc |-> p, cb |-> r.cb, c |-> r.c]
<1>1. [r EXCEPT !.pc = p] = q
    BY JobFields
<1>2. q \in Job /\ q.pc = p /\ q.cb = r.cb
    BY JobFields, MakeJob
<1> HIDE DEF q
<1>3. [q EXCEPT !.c = d] = [pc |-> q.pc, cb |-> q.cb, c |-> d]
    BY <1>2, JobFields
<1> QED
    BY <1>1, <1>2, <1>3, Zenon

\* The parts of a connection.
LEMMA ConnFields ==
    ASSUME NEW c \in ConnState
    PROVE  /\ c.op \in {"none", "pending", "ok", "error"} /\ c.ec \in {"none", "ok", "error"}
           /\ c.timer \in {"none", "armed", "due", "off"} /\ c.closed \in BOOLEAN
           /\ c.started \in BOOLEAN /\ c.shut \in BOOLEAN /\ c.want \in BOOLEAN
           /\ c.queued \in BOOLEAN /\ c.late \in BOOLEAN /\ c.heard \in BOOLEAN
  BY DEF ConnState

\* What the completion of an async_connect leaves alone.
LEMMA SetOp ==
    ASSUME NEW c \in ConnState, NEW x \in {"none", "pending", "ok", "error"}, NEW d, d = [c EXCEPT !.op = x]
    PROVE  /\ d \in ConnState /\ d.started = c.started /\ d.shut = c.shut
           /\ d.timer = c.timer /\ d.closed = c.closed /\ d.queued = c.queued
  BY DEF ConnState

\* shutdown sets shut and heard.
LEMMA ShutDownFields ==
    ASSUME NEW c \in ConnState
    PROVE  LET d == ShutDown(c)
           IN  /\ d \in ConnState /\ d.started = c.started /\ d.shut = TRUE
               /\ d.timer = c.timer /\ d.closed = c.closed /\ d.queued = c.queued
  BY Zenon DEF ConnState, ShutDown

\* The network's answer to async_connect.
LEMMA NetworkAnswersInv ==
    ASSUME ServerInv, NEW j \in Jobs, NetworkAnswers(j)
    PROVE  ServerInv'
<1>1. PICK x \in {"ok", "error"} : jobs' = [jobs EXCEPT ![j].c.op = x]
    BY Zenon DEF NetworkAnswers
<1> DEFINE d == [jobs[j].c EXCEPT !.op = x]
<1> DEFINE r == [pc |-> jobs[j].pc, cb |-> jobs[j].cb, c |-> d]
<1>2. jobs[j] \in Job /\ jobs[j].c \in ConnState /\ JobOk(j, jobs[j], Running)
    BY JobFields DEF ServerInv, ServerTyped
<1>3. /\ d \in ConnState /\ d.started = jobs[j].c.started /\ d.shut = jobs[j].c.shut
      /\ d.timer = jobs[j].c.timer /\ d.closed = jobs[j].c.closed /\ d.queued = jobs[j].c.queued
    BY <1>2, SetOp
<1>4. jobs' = [jobs EXCEPT ![j] = r]
    BY <1>1, <1>2, <1>3, JobFields, Zenon
<1> HIDE DEF d
<1>5. JobOk(j, r, Running')
    BY <1>2, <1>3, JobFields DEF JobOk, AsyncOk, AcceptOk, IdleOk, NetworkAnswers, Running, Job
<1> QED
    BY <1>2, <1>3, <1>4, <1>5, OneJob, Zenon DEF NetworkAnswers, ServerInv, ServerTyped, Running, Counted

\* What the invariant says of one job.
LEMMA JobFacts ==
    ASSUME ServerInv, NEW j \in Jobs
    PROVE  /\ jobs[j] \in Job /\ jobs[j].c \in ConnState /\ JobOk(j, jobs[j], Running)
           /\ j \in sv.listed => jobs[j].pc \in {"wait", "connected"}
  BY JobFields DEF ServerInv, ServerTyped

\* A step that only moves job j to p.
LEMMA PcOnly ==
    ASSUME ServerInv, NEW j \in Jobs, NEW p \in JobPcs, To(j, p), UNCHANGED sv,
           JobOk(j, [pc |-> p, cb |-> jobs[j].cb, c |-> jobs[j].c], Running),
           j \in sv.listed => p \in {"wait", "connected"}
    PROVE  ServerInv'
<1> DEFINE r == [pc |-> p, cb |-> jobs[j].cb, c |-> jobs[j].c]
<1>1. jobs' = [jobs EXCEPT ![j] = r]
  <2>1. jobs' = [jobs EXCEPT ![j].pc = p] /\ jobs \in [Jobs -> Job] /\ jobs[j] \in Job
      BY JobFacts DEF To, ServerInv, ServerTyped
  <2>2. [jobs[j] EXCEPT !.pc = p] = r
      BY <2>1, JobFields
  <2> QED
      BY <2>1, <2>2, Zenon
<1>2. JobOk(j, r, Running') /\ Running' = Running
    BY DEF Running
<1>3. r.pc = p /\ r.c = jobs[j].c
    OBVIOUS
<1> HIDE DEF r
<1> QED
    BY <1>1, <1>2, <1>3, OneJob, Zenon DEF ServerInv, ServerTyped

\* A step that only changes j's connection, counted as before.
LEMMA ConnOnly ==
    ASSUME ServerInv, NEW j \in Jobs, NEW d \in ConnState, jobs' = [jobs EXCEPT ![j].c = d],
           UNCHANGED sv, JobOk(j, [pc |-> jobs[j].pc, cb |-> jobs[j].cb, c |-> d], Running),
           Counted(d) <=> Counted(jobs[j].c)
    PROVE  ServerInv'
<1> DEFINE r == [pc |-> jobs[j].pc, cb |-> jobs[j].cb, c |-> d]
<1>1. jobs' = [jobs EXCEPT ![j] = r]
    BY JobFacts, JobFields, Zenon
<1>2. JobOk(j, r, Running') /\ Running' = Running
    BY DEF Running
<1>3. r.pc = jobs[j].pc /\ r.c = d
    OBVIOUS
<1>4. j \in sv.listed => r.pc \in {"wait", "connected"}
    BY <1>3, JobFacts
<1> HIDE DEF r
<1> QED
    BY <1>1, <1>2, <1>3, <1>4, OneJob, Zenon DEF ServerInv, ServerTyped

\* A connection is changed, and discounted when that shuts it down.
LEMMA BecomesInv ==
    ASSUME ServerInv, NEW j \in Jobs, NEW d \in ConnState, Becomes(j, d),
           d.started = jobs[j].c.started, jobs[j].c.shut => d.shut,
           d.timer = jobs[j].c.timer, d.closed = jobs[j].c.closed,
           d.queued => jobs[j].c.queued,
           d.shut = jobs[j].c.shut \/ jobs[j].c.started \/ jobs[j].pc \notin
                {"none", "connecting", "failed", "wait", "connected"}
    PROVE  ServerInv'
<1> DEFINE r == [pc |-> jobs[j].pc, cb |-> jobs[j].cb, c |-> d]
<1>0. jobs' = [jobs EXCEPT ![j].c = d]
    BY DEF Becomes
<1>1. jobs' = [jobs EXCEPT ![j] = r]
  <2>1. jobs \in [Jobs -> Job] /\ jobs[j] \in Job
      BY JobFacts DEF ServerInv, ServerTyped
  <2>2. [jobs[j] EXCEPT !.c = d] = r
      BY <2>1, JobFields
  <2> QED
      BY <1>0, <2>1, <2>2, Zenon
<1> DEFINE h == IF Counted(jobs[j].c) /\ ~Counted(d) THEN sv.hosts - 1 ELSE sv.hosts
<1>2. sv.hosts \in Int /\ h \in Int
    BY DEF ServerInv, ServerTyped, SvType
<1>9. sv' = [sv EXCEPT !.hosts = h]
    BY DEF Becomes
<1> HIDE DEF h
<1>3. /\ sv' \in SvType
      /\ Running' = Running /\ sv'.listed = sv.listed /\ sv'.hosts = h
    BY <1>2, <1>9 DEF ServerInv, ServerTyped, Running, SvType
<1>4. /\ r.pc = jobs[j].pc /\ r.c = d /\ r.cb = jobs[j].cb
    OBVIOUS
<1>5. r \in Job
    BY JobFacts, JobFields DEF Job
<1> HIDE DEF r
<1>6. j \in sv.listed => r.pc \in {"wait", "connected"}
    BY <1>4, JobFacts
<1>7. JobOk(j, r, Running')
  <2>1. JobOk(j, jobs[j], Running)
      BY JobFacts
  <2>2. j \in Asyncs => AsyncOk(r)
      BY <1>4, <2>1 DEF JobOk, AsyncOk
  <2>3. j \in Accepts => AcceptOk(r)
      BY <1>4, <2>1 DEF JobOk, AcceptOk
  <2>4. j \in Idles => IdleOk(r, Running')
      BY <1>3, <1>4, <2>1 DEF JobOk, IdleOk
  <2> QED
      BY <1>5, <2>2, <2>3, <2>4 DEF JobOk
<1>8. \/ (Counted(jobs[j].c) <=> Counted(r.c)) /\ sv'.hosts = sv.hosts
      \/ Counted(jobs[j].c) /\ ~Counted(r.c) /\ sv'.hosts = sv.hosts - 1
  <2>1. Counted(d) => Counted(jobs[j].c)
      BY DEF Counted
  <2>2. sv'.hosts = IF Counted(jobs[j].c) /\ ~Counted(d) THEN sv.hosts - 1 ELSE sv.hosts
      BY <1>3 DEF h
  <2> QED
      BY <2>1, <2>2, <1>4
<1> QED
    BY <1>1, <1>3, <1>4, <1>6, <1>7, <1>8, OneJob, Zenon

\* A read ends: the connection was started, so it is discounted.
LEMMA ConnectionEndsInv ==
    ASSUME ServerInv, NEW j \in Jobs, ConnectionEnds(j)
    PROVE  ServerInv'
<1> DEFINE d == ShutDown(jobs[j].c)
<1>1. jobs[j].c.started /\ Becomes(j, d)
    BY DEF ConnectionEnds, Counted
<1>2. /\ d \in ConnState /\ d.started = jobs[j].c.started /\ d.shut
      /\ d.timer = jobs[j].c.timer /\ d.closed = jobs[j].c.closed /\ d.queued = jobs[j].c.queued
    BY JobFacts, ShutDownFields, Zenon
<1> HIDE DEF d
<1> QED
    BY <1>1, <1>2, BecomesInv, Zenon

\* handle_write: only a connection with a handshake queued is written.
LEMMA WrittenInv ==
    ASSUME ServerInv, NEW i \in Idles, Written(i)
    PROVE  ServerInv'
<1> DEFINE b == [jobs[i].c EXCEPT !.queued = FALSE]
<1> DEFINE d == IF b.want THEN ShutDown(b) ELSE b
<1>1. i \in Jobs /\ jobs[i].c.queued /\ Becomes(i, d)
    BY DEF Written, Jobs
<1>2. /\ b \in ConnState /\ b.started = jobs[i].c.started /\ b.shut = jobs[i].c.shut
      /\ b.timer = jobs[i].c.timer /\ b.closed = jobs[i].c.closed /\ b.queued = FALSE
    BY <1>1, JobFacts, Zenon DEF ConnState
<1> HIDE DEF b
<1>3. /\ d \in ConnState /\ d.started = jobs[i].c.started /\ (jobs[i].c.shut => d.shut)
      /\ d.timer = jobs[i].c.timer /\ d.closed = jobs[i].c.closed /\ d.queued = FALSE
    BY <1>2, ShutDownFields, Zenon
<1>4. jobs[i].pc \notin {"none", "connecting", "failed", "wait", "connected"}
    BY <1>1, JobFacts DEF JobOk, IdleOk
<1> HIDE DEF d
<1> QED
    BY <1>1, <1>3, <1>4, BecomesInv

\* What setting the event of the handshake leaves alone.
LEMMA SetHeard ==
    ASSUME NEW c \in ConnState, NEW d, d = [c EXCEPT !.heard = TRUE]
    PROVE  /\ d \in ConnState /\ d.started = c.started /\ d.shut = c.shut
           /\ d.timer = c.timer /\ d.closed = c.closed /\ d.queued = c.queued
  BY Zenon DEF ConnState

\* close shuts down, or leaves it to handle_write.
LEMMA CloseFields ==
    ASSUME NEW c \in ConnState
    PROVE  LET d == Close(c)
           IN  /\ d \in ConnState /\ d.started = c.started /\ (c.shut => d.shut)
               /\ d.timer = c.timer /\ d.closed = c.closed /\ d.queued = c.queued
<1>1. CASE c.queued
  <2> DEFINE d == [c EXCEPT !.want = TRUE]
  <2>1. /\ d \in ConnState /\ d.started = c.started /\ d.shut = c.shut
        /\ d.timer = c.timer /\ d.closed = c.closed /\ d.queued = c.queued
      BY Zenon DEF ConnState
  <2>2. Close(c) = d
      BY <1>1 DEF Close
  <2> QED
      BY <2>1, <2>2
<1>2. CASE ~c.queued
    BY <1>2, ShutDownFields, Zenon DEF Close
<1> QED
    BY <1>1, <1>2

\* The response to a handshake, and its timeout.
LEMMA AnsweredInv ==
    ASSUME ServerInv, NEW i \in Idles, Answered(i) \/ InvokeTimesOut(i)
    PROVE  ServerInv'
<1> DEFINE b == IF Becomes(i, [jobs[i].c EXCEPT !.heard = TRUE]) THEN jobs[i].c ELSE Close(jobs[i].c)
<1> DEFINE d == [b EXCEPT !.heard = TRUE]
<1>1. i \in Jobs /\ jobs[i].pc = "shaking"
    BY DEF Answered, InvokeTimesOut, Jobs, Pc
<1>2. Becomes(i, d)
    BY Zenon DEF Answered, InvokeTimesOut
<1>3. /\ b \in ConnState /\ b.started = jobs[i].c.started /\ (jobs[i].c.shut => b.shut)
      /\ b.timer = jobs[i].c.timer /\ b.closed = jobs[i].c.closed /\ b.queued = jobs[i].c.queued
    BY <1>1, JobFacts, CloseFields
<1> HIDE DEF b
<1>4. /\ d \in ConnState /\ d.started = jobs[i].c.started /\ (jobs[i].c.shut => d.shut)
      /\ d.timer = jobs[i].c.timer /\ d.closed = jobs[i].c.closed /\ d.queued = jobs[i].c.queued
    BY <1>3, SetHeard
<1>5. jobs[i].pc \notin {"none", "connecting", "failed", "wait", "connected"}
    BY <1>1
<1> HIDE DEF d
<1> QED
    BY <1>1, <1>2, <1>4, <1>5, BecomesInv

\* Steps that only move an idle handler on.
LEMMA IdleMovesInv ==
    ASSUME ServerInv, NEW i \in Idles,
           IdleFires(i) \/ IdleReturns(i) \/ IdleThrows(i) \/ Shaken(i)
    PROVE  ServerInv'
<1>0. i \in Jobs /\ i \notin Asyncs /\ i \notin Accepts
    BY JobsApart DEF Jobs
<1>1. PICK p \in {"run", "timer", "dead", "back"} : To(i, p) /\ UNCHANGED sv
    BY DEF IdleFires, IdleReturns, IdleThrows, Shaken
<1>2. jobs[i].pc \notin {"wait", "connected"}
    BY DEF IdleFires, IdleReturns, IdleThrows, Shaken, Pc
<1> DEFINE r == [pc |-> p, cb |-> jobs[i].cb, c |-> jobs[i].c]
<1>3. JobOk(i, r, Running)
    BY <1>0, <1>1, JobFacts, JobFields, MakeJob, Zenon DEF JobOk, IdleOk, JobPcs
<1> QED
    BY <1>0, <1>1, <1>2, <1>3, JobFacts, PcOnly, Zenon DEF JobPcs

\* connect: the new connection is listed, and has nothing queued.
LEMMA ConnectInv ==
    ASSUME ServerInv, NEW i \in Idles, Connect(i)
    PROVE  ServerInv'
<1>0. i \in Jobs /\ i \notin Asyncs /\ i \notin Accepts
    BY JobsApart DEF Jobs
<1>1. jobs[i].pc = "run" /\ ~Counted(jobs[i].c)
    BY DEF Connect, Pc
<1>2. CASE To(i, "back") /\ UNCHANGED sv
  <2>1. JobOk(i, [pc |-> "back", cb |-> jobs[i].cb, c |-> jobs[i].c], Running)
      BY <1>0, JobFacts, JobFields, MakeJob, Zenon DEF JobOk, IdleOk, JobPcs
  <2> QED
      BY <1>0, <1>1, <1>2, <2>1, JobFacts, PcOnly, Zenon DEF JobPcs
<1>3. CASE /\ jobs' = [jobs EXCEPT ![i].pc = "wait", ![i].c = [NewConnection EXCEPT !.op = "pending"]]
           /\ sv' = [sv EXCEPT !.listed = @ \cup {i}]
  <2> DEFINE d == [NewConnection EXCEPT !.op = "pending"]
  <2> DEFINE r == [pc |-> "wait", cb |-> jobs[i].cb, c |-> d]
  <2>1. /\ d \in ConnState /\ d.started = FALSE /\ d.shut = FALSE
        /\ d.timer = "none" /\ d.closed = FALSE /\ d.queued = FALSE
      BY Zenon DEF NewConnection, ConnState
  <2>2. jobs' = [jobs EXCEPT ![i].pc = "wait", ![i].c = d]
      BY <1>3
  <2> HIDE DEF d
  <2>3. jobs' = [jobs EXCEPT ![i] = r]
    <3>1. jobs \in [Jobs -> Job] /\ jobs[i] \in Job
        BY <1>0, JobFacts DEF ServerInv, ServerTyped
    <3>2. d \in ConnState /\ "wait" \in JobPcs
        BY <2>1 DEF JobPcs
    <3>3. [[jobs[i] EXCEPT !.pc = "wait"] EXCEPT !.c = d] = r
        BY <3>1, <3>2, SetPcConn, Zenon
    <3> QED
        BY <1>0, <2>2, <3>1, <3>3, Zenon
  <2>4. r \in Job /\ r.pc = "wait" /\ r.c = d
      BY <1>0, <2>1, JobFacts, JobFields, MakeJob, Zenon DEF JobPcs
  <2>5. /\ sv' \in SvType
        /\ Running' = Running /\ sv'.listed = sv.listed \cup {i} /\ sv'.hosts = sv.hosts
      BY <1>3 DEF ServerInv, ServerTyped, Running, SvType
  <2> HIDE DEF r
  <2>6. JobOk(i, r, Running')
      BY <1>0, <2>1, <2>4 DEF JobOk, IdleOk
  <2>7. ~Counted(r.c)
      BY <2>1, <2>4 DEF Counted
  <2> QED
      BY <1>0, <1>1, <2>3, <2>4, <2>5, <2>6, <2>7, OneJob, Zenon
<1> QED
    BY <1>2, <1>3 DEF Connect

\* One job changes its pc and its connection; the host count is untouched.
LEMMA PcAndConn ==
    ASSUME ServerInv, NEW j \in Jobs, NEW p \in JobPcs, NEW d \in ConnState,
           jobs' = [jobs EXCEPT ![j] = [pc |-> p, cb |-> jobs[j].cb, c |-> d]],
           sv' \in SvType,
           Running' = Running, sv'.hosts = sv.hosts, sv'.listed \subseteq sv.listed \cup {j},
           j \in sv'.listed => p \in {"wait", "connected"},
           JobOk(j, [pc |-> p, cb |-> jobs[j].cb, c |-> d], Running),
           Counted(d) <=> Counted(jobs[j].c)
    PROVE  ServerInv'
<1> DEFINE r == [pc |-> p, cb |-> jobs[j].cb, c |-> d]
<1>1. r.pc = p /\ r.c = d
    OBVIOUS
<1> HIDE DEF r
<1>2. jobs' = [jobs EXCEPT ![j] = r] /\ JobOk(j, r, Running')
    BY DEF r
<1> QED
    BY <1>1, <1>2, OneJob, Zenon

\* connect_callback hands over the error code.
LEMMA ConnectCallbackInv ==
    ASSUME ServerInv, NEW i \in Idles, ConnectCallback(i)
    PROVE  ServerInv'
<1>0. i \in Jobs /\ i \notin Asyncs /\ i \notin Accepts
    BY JobsApart DEF Jobs
<1> DEFINE x == jobs[i].c.op
<1> DEFINE b == [jobs[i].c EXCEPT !.op = "none"]
<1> DEFINE d == [b EXCEPT !.ec = x]
<1>1. x \in {"ok", "error"} /\ UNCHANGED sv
    BY DEF ConnectCallback
<1>2. /\ b \in ConnState /\ b.started = jobs[i].c.started /\ b.shut = jobs[i].c.shut
      /\ b.timer = jobs[i].c.timer /\ b.closed = jobs[i].c.closed /\ b.queued = jobs[i].c.queued
    BY <1>0, JobFacts, SetOp
<1> HIDE DEF b, x
<1>3. /\ d \in ConnState /\ d.started = b.started /\ d.shut = b.shut
      /\ d.timer = b.timer /\ d.closed = b.closed /\ d.queued = b.queued
    BY <1>1, <1>2 DEF ConnState
<1>4. jobs' = [jobs EXCEPT ![i].c = d]
  <2>1. jobs' = [jobs EXCEPT ![i].c.op = "none", ![i].c.ec = x]
      BY DEF ConnectCallback, x
  <2>2. jobs \in [Jobs -> Job] /\ jobs[i] \in Job
      BY <1>0, JobFacts DEF ServerInv, ServerTyped
  <2> QED
      BY <1>0, <2>1, <2>2, Zenon DEF b, Job
<1> HIDE DEF d
<1>5. JobOk(i, [pc |-> jobs[i].pc, cb |-> jobs[i].cb, c |-> d], Running)
    BY <1>0, <1>2, <1>3, JobFacts, JobFields, MakeJob DEF JobOk, IdleOk
<1>6. Counted(d) <=> Counted(jobs[i].c)
    BY <1>2, <1>3 DEF Counted
<1> QED
    BY <1>0, <1>1, <1>3, <1>4, <1>5, <1>6, ConnOnly, Zenon

\* try_connect: the connection stays listed until it starts or is given up.
LEMMA TryConnectInv ==
    ASSUME ServerInv, NEW i \in Idles, TryConnect(i)
    PROVE  ServerInv'
<1>0. i \in Jobs /\ i \notin Asyncs /\ i \notin Accepts
    BY JobsApart DEF Jobs
<1>1. jobs[i].pc = "wait" /\ jobs \in [Jobs -> Job] /\ jobs[i] \in Job
    BY <1>0, JobFacts DEF TryConnect, Pc, ServerInv, ServerTyped
<1>2. CASE To(i, "connected") /\ UNCHANGED sv
  <2>1. JobOk(i, [pc |-> "connected", cb |-> jobs[i].cb, c |-> jobs[i].c], Running)
      BY <1>0, <1>1, JobFacts, JobFields, MakeJob, Zenon DEF JobOk, IdleOk, JobPcs
  <2> QED
      BY <1>0, <1>2, <2>1, PcOnly, Zenon DEF JobPcs
<1>3. CASE /\ jobs' = [jobs EXCEPT ![i].pc = "back", ![i].c.op = "none"]
           /\ sv' = [sv EXCEPT !.listed = @ \ {i}]
  <2> DEFINE d == [jobs[i].c EXCEPT !.op = "none"]
  <2>1. /\ d \in ConnState /\ d.started = jobs[i].c.started /\ d.shut = jobs[i].c.shut
        /\ d.timer = jobs[i].c.timer /\ d.closed = jobs[i].c.closed /\ d.queued = jobs[i].c.queued
      BY <1>0, JobFacts, SetOp
  <2>2. jobs' = [jobs EXCEPT ![i] = [pc |-> "back", cb |-> jobs[i].cb, c |-> d]]
    <3>1. [jobs[i] EXCEPT !.pc = "back"].c = jobs[i].c
        BY <1>1 DEF Job
    <3>2. jobs' = [jobs EXCEPT ![i] = [[jobs[i] EXCEPT !.pc = "back"] EXCEPT !.c = d]]
        BY <1>0, <1>1, <1>3, <3>1, Zenon
    <3> HIDE DEF d
    <3>3. d \in ConnState /\ "back" \in JobPcs
        BY <2>1 DEF JobPcs
    <3>4. [[jobs[i] EXCEPT !.pc = "back"] EXCEPT !.c = d] = [pc |-> "back", cb |-> jobs[i].cb, c |-> d]
        BY <1>1, <3>3, SetPcConn, Zenon
    <3> QED
        BY <3>2, <3>4, Zenon
  <2> HIDE DEF d
  <2>3. /\ sv' \in SvType
        /\ Running' = Running /\ sv'.listed = sv.listed \ {i} /\ sv'.hosts = sv.hosts
      BY <1>3 DEF ServerInv, ServerTyped, Running, SvType
  <2>4. JobOk(i, [pc |-> "back", cb |-> jobs[i].cb, c |-> d], Running)
      BY <1>0, <2>1, JobFacts, JobFields, MakeJob, Zenon DEF JobOk, IdleOk, JobPcs
  <2>5. Counted(d) <=> Counted(jobs[i].c)
      BY <2>1 DEF Counted
  <2> QED
      BY <1>0, <2>1, <2>2, <2>3, <2>4, <2>5, PcAndConn, Zenon DEF JobPcs
<1> QED
    BY <1>2, <1>3 DEF TryConnect

\* The request of do_handshake_with_peer is queued.
LEMMA HandshakeInv ==
    ASSUME ServerInv, NEW i \in Idles, Handshake(i)
    PROVE  ServerInv'
<1>0. i \in Jobs /\ i \notin Asyncs /\ i \notin Accepts
    BY JobsApart DEF Jobs
<1>1. jobs[i].pc = "started" /\ UNCHANGED sv /\ jobs \in [Jobs -> Job] /\ jobs[i] \in Job
    BY <1>0, JobFacts DEF Handshake, Pc, ServerInv, ServerTyped
<1> DEFINE p == IF jobs[i].c.shut THEN "back" ELSE "shaking"
<1> DEFINE q == ~jobs[i].c.shut
<1> DEFINE d == [jobs[i].c EXCEPT !.queued = q]
<1>2. jobs' = [jobs EXCEPT ![i].pc = p, ![i].c.queued = q]
    BY DEF Handshake
<1>3. p \in {"back", "shaking"} /\ q \in BOOLEAN
    OBVIOUS
<1> HIDE DEF p, q
<1>4. /\ d \in ConnState /\ d.started = jobs[i].c.started /\ d.shut = jobs[i].c.shut
      /\ d.timer = jobs[i].c.timer /\ d.closed = jobs[i].c.closed
    BY <1>0, <1>3, JobFacts DEF ConnState
<1>5. jobs' = [jobs EXCEPT ![i] = [pc |-> p, cb |-> jobs[i].cb, c |-> d]]
  <2>1. [jobs[i] EXCEPT !.pc = p].c = jobs[i].c
      BY <1>1 DEF Job
  <2>2. jobs' = [jobs EXCEPT ![i] = [[jobs[i] EXCEPT !.pc = p] EXCEPT !.c = d]]
      BY <1>0, <1>1, <1>2, <2>1, Zenon
  <2> HIDE DEF d
  <2>3. p \in JobPcs /\ d \in ConnState /\ jobs[i] \in Job
      BY <1>1, <1>3, <1>4 DEF JobPcs
  <2>4. [[jobs[i] EXCEPT !.pc = p] EXCEPT !.c = d] = [pc |-> p, cb |-> jobs[i].cb, c |-> d]
      BY <2>3, SetPcConn, Zenon
  <2> QED
      BY <2>2, <2>4, Zenon
<1> HIDE DEF d
<1>6. JobOk(i, [pc |-> p, cb |-> jobs[i].cb, c |-> d], Running)
    BY <1>0, <1>3, <1>4, JobFacts, JobFields, MakeJob, Zenon DEF JobOk, IdleOk, JobPcs
<1>7. (Counted(d) <=> Counted(jobs[i].c)) /\ i \notin sv.listed
    BY <1>0, <1>1, <1>4, JobFacts DEF Counted
<1> QED
    BY <1>0, <1>1, <1>3, <1>4, <1>5, <1>6, <1>7, PcAndConn, Zenon DEF JobPcs, ServerInv, ServerTyped, Running

\* start sets started and stops the deadline.
LEMMA StartedConn ==
    ASSUME NEW c \in ConnState, sv.parting \in BOOLEAN
    PROVE  LET d == Started(c)
           IN  /\ d \in ConnState /\ d.started = TRUE /\ d.timer = "off" /\ d.shut = c.shut
               /\ d.closed = c.closed
<1> DEFINE e == [c EXCEPT !.started = TRUE]
<1> DEFINE f == [e EXCEPT !.late = sv.parting]
<1>1. e \in ConnState /\ e.started = TRUE /\ e.shut = c.shut /\ e.closed = c.closed
    BY Zenon DEF ConnState
<1> HIDE DEF e
<1>2. f \in ConnState /\ f.started = TRUE /\ f.shut = c.shut /\ f.closed = c.closed
    BY <1>1 DEF ConnState
<1> HIDE DEF f
<1>3. Started(c) = [f EXCEPT !.timer = "off"]
    BY DEF e, f, Started
<1> QED
    BY <1>2, <1>3 DEF ConnState

\* A denied connection is shut down before it started.
LEMMA DeniedConn ==
    ASSUME NEW c \in ConnState, NEW d, d = [c EXCEPT !.shut = TRUE, !.timer = "off"]
    PROVE  /\ d \in ConnState /\ d.started = c.started /\ d.timer = "off" /\ d.shut = TRUE
           /\ d.closed = c.closed
<1> DEFINE e == [c EXCEPT !.shut = TRUE]
<1>1. e \in ConnState /\ e.started = c.started /\ e.shut = TRUE /\ e.closed = c.closed
    BY Zenon DEF ConnState
<1> HIDE DEF e
<1>3. d = [e EXCEPT !.timer = "off"]
    BY DEF e
<1> QED
    BY <1>1, <1>3 DEF ConnState

\* connection::start, whatever job it belongs to.
LEMMA StartInv ==
    ASSUME ServerInv, NEW j \in Jobs, NEW p \in JobPcs, p \notin {"wait", "connected"},
           NEW s \in Seq(CallbackResults), NEW e \in Seq(CallbackResults), Start(j, p, s, e),
           ~jobs[j].c.started, Running => ~jobs[j].c.shut,
           \A d \in ConnState :
               d.started /\ d.timer = "off" /\ d.shut = jobs[j].c.shut /\ d.closed = jobs[j].c.closed
               => JobOk(j, [pc |-> p, cb |-> jobs[j].cb \o s, c |-> d], Running),
           \A d \in ConnState :
               ~d.started /\ d.timer = "off" /\ d.shut /\ d.closed = jobs[j].c.closed
               => JobOk(j, [pc |-> "back", cb |-> jobs[j].cb \o e, c |-> d], Running)
    PROVE  ServerInv'
<1>1. /\ jobs \in [Jobs -> Job] /\ jobs[j] \in Job /\ jobs[j].c \in ConnState
      /\ sv \in SvType
    BY JobFacts DEF ServerInv, ServerTyped
<1>2. ~Counted(jobs[j].c)
    BY DEF Counted
<1>3. CASE /\ jobs' = [jobs EXCEPT ![j] = [pc |-> p, cb |-> @.cb \o s,
                                      c |-> Started(@.c)]]
           /\ sv' = [sv EXCEPT !.hosts = @ + 1, !.listed = @ \ {j}]
  <2> DEFINE d == Started(jobs[j].c)
  <2> DEFINE n == [pc |-> p, cb |-> jobs[j].cb \o s, c |-> d]
  <2>1. jobs' = [jobs EXCEPT ![j] = n]
      BY <1>1, <1>3
  <2>2. /\ d \in ConnState /\ d.started = TRUE /\ d.timer = "off" /\ d.shut = jobs[j].c.shut
        /\ d.closed = jobs[j].c.closed
    <3>1. sv.parting \in BOOLEAN
        BY <1>1 DEF SvType
    <3> QED
        BY <1>1, <3>1, StartedConn, Zenon
  <2> HIDE DEF d
  <2>3. n.pc = p /\ n.c = d /\ JobOk(j, n, Running)
      BY <2>2
  <2> HIDE DEF n
  <2>4. /\ sv' \in SvType
        /\ Running' = Running /\ sv'.listed = sv.listed \ {j} /\ sv'.hosts = sv.hosts + 1
    <3> DEFINE h == sv.hosts + 1
    <3>1. h \in Int /\ sv' = [sv EXCEPT !.hosts = h, !.listed = @ \ {j}]
        BY <1>1, <1>3 DEF SvType
    <3> HIDE DEF h
    <3>2. /\ sv' \in SvType
          /\ Running' = Running /\ sv'.listed = sv.listed \ {j} /\ sv'.hosts = h
        BY <1>1, <3>1, Zenon DEF Running, SvType
    <3> QED
        BY <3>2 DEF h
  <2>5. Counted(n.c) \/ ~Running
      BY <2>2, <2>3 DEF Counted
  <2> QED
      BY <1>2, <2>1, <2>3, <2>4, <2>5, OneJob, Zenon
<1>4. CASE /\ jobs' = [jobs EXCEPT ![j] = [pc |-> "back", cb |-> @.cb \o e,
                                      c |-> [@.c EXCEPT !.shut = TRUE, !.timer = "off"]]]
           /\ sv' = [sv EXCEPT !.listed = @ \ {j}]
  <2> DEFINE d == [jobs[j].c EXCEPT !.shut = TRUE, !.timer = "off"]
  <2> DEFINE n == [pc |-> "back", cb |-> jobs[j].cb \o e, c |-> d]
  <2>1. jobs' = [jobs EXCEPT ![j] = n]
      BY <1>1, <1>4
  <2>2. /\ d \in ConnState /\ d.started = jobs[j].c.started /\ d.timer = "off" /\ d.shut = TRUE
        /\ d.closed = jobs[j].c.closed
      BY <1>1, DeniedConn, Zenon
  <2> HIDE DEF d
  <2>3. n.pc = "back" /\ n.c = d /\ JobOk(j, n, Running)
      BY <2>2, Zenon
  <2> HIDE DEF n
  <2>4. /\ sv' \in SvType
        /\ Running' = Running /\ sv'.listed = sv.listed \ {j} /\ sv'.hosts = sv.hosts
      BY <1>1, <1>4, Zenon DEF Running, SvType
  <2>5. ~Counted(n.c)
      BY <2>2, <2>3 DEF Counted
  <2> QED
      BY <1>2, <2>1, <2>3, <2>4, <2>5, OneJob, Zenon
<1> QED
    BY <1>3, <1>4 DEF Start

\* start after a blocking connect: a stop may have cancelled the connection.
LEMMA StartConnectedInv ==
    ASSUME ServerInv, NEW i \in Idles, StartConnected(i)
    PROVE  ServerInv'
<1>0. i \in Jobs /\ i \notin Asyncs /\ i \notin Accepts
    BY JobsApart DEF Jobs
<1>1. Pc(i, "connected") /\ Start(i, "started", <<>>, <<>>) /\ <<>> \in Seq(CallbackResults)
    BY DEF StartConnected
<1>2. /\ jobs[i] \in Job /\ jobs[i].cb \in Seq(CallbackResults) /\ jobs[i].cb \o <<>> \in Seq(CallbackResults)
      /\ ~jobs[i].c.started /\ (Running => ~jobs[i].c.shut)
    BY <1>0, <1>1, JobFacts, JobFields DEF JobOk, IdleOk, Pc
<1>3. \A p \in {"started", "back"}, d \in ConnState :
          d.timer = "off" => JobOk(i, [pc |-> p, cb |-> jobs[i].cb \o <<>>, c |-> d], Running)
    BY <1>0, <1>2, MakeJob DEF JobOk, IdleOk, JobPcs
<1>4. "started" \in JobPcs
    BY DEF JobPcs
<1> QED
    BY <1>0, <1>1, <1>2, <1>3, <1>4, StartInv, Zenon

\* start of a connection that was accepted.
LEMMA HandleAcceptInv ==
    ASSUME ServerInv, NEW j \in Jobs, HandleAccept(j)
    PROVE  ServerInv'
<1>0. j \in Accepts /\ j \notin Asyncs /\ j \notin Idles
    BY JobsApart DEF HandleAccept
<1>1. Pc(j, "none") /\ Start(j, "up", <<>>, <<>>) /\ <<>> \in Seq(CallbackResults)
    BY DEF HandleAccept
<1>2. /\ jobs[j] \in Job /\ jobs[j].cb \in Seq(CallbackResults) /\ jobs[j].cb \o <<>> \in Seq(CallbackResults)
      /\ ~jobs[j].c.started /\ (Running => ~jobs[j].c.shut)
    BY <1>0, <1>1, JobFacts, JobFields DEF JobOk, AcceptOk, Pc
<1>3. \A p \in {"up", "back"}, d \in ConnState :
          d.timer = "off" => JobOk(j, [pc |-> p, cb |-> jobs[j].cb \o <<>>, c |-> d], Running)
    BY <1>0, <1>2, MakeJob DEF JobOk, AcceptOk, JobPcs
<1>4. "up" \in JobPcs
    BY DEF JobPcs
<1> QED
    BY <1>0, <1>1, <1>2, <1>3, <1>4, StartInv, Zenon

\* What the deadline's timer leaves alone.
LEMMA SetTimer ==
    ASSUME NEW c \in ConnState, NEW x \in {"armed", "due"}, NEW d, d = [c EXCEPT !.timer = x]
    PROVE  /\ d \in ConnState /\ d.started = c.started /\ d.shut = c.shut
           /\ d.timer = x /\ d.closed = c.closed /\ d.queued = c.queued
  BY DEF ConnState

\* A call of connect_async is no idle handler and no accepted connection.
LEMMA AsyncApart ==
    ASSUME NEW a \in Asyncs
    PROVE  a \in Jobs /\ a \notin Idles /\ a \notin Accepts
  BY JobsApart DEF Jobs

\* connect_async fails at once, or arms its deadline.
LEMMA ConnectAsyncInv ==
    ASSUME ServerInv, NEW a \in Asyncs, ConnectAsync(a)
    PROVE  ServerInv'
<1>0. a \in Jobs /\ a \notin Idles /\ a \notin Accepts
    BY AsyncApart
<1>1. /\ jobs[a].pc = "none" /\ UNCHANGED sv /\ jobs \in [Jobs -> Job] /\ jobs[a] \in Job
      /\ a \notin sv.listed /\ jobs[a].c \in ConnState
    BY <1>0, JobFacts DEF ConnectAsync, Pc, ServerInv, ServerTyped
<1>2. /\ jobs[a].cb = <<>> /\ ~jobs[a].c.started /\ ~jobs[a].c.shut /\ ~jobs[a].c.closed
      /\ jobs[a].c.timer = "none" /\ jobs[a].cb \in Seq(CallbackResults)
    BY <1>0, <1>1, JobFacts, JobFields DEF JobOk, AsyncOk
<1>3. CASE To(a, "failed")
  <2>1. JobOk(a, [pc |-> "failed", cb |-> jobs[a].cb, c |-> jobs[a].c], Running)
      BY <1>0, <1>1, <1>2, MakeJob, Zenon DEF JobOk, AsyncOk, JobPcs
  <2> QED
      BY <1>0, <1>1, <1>3, <2>1, PcOnly, Zenon DEF JobPcs
<1>4. CASE jobs' = [jobs EXCEPT ![a].pc = "connecting", ![a].c.op = "pending", ![a].c.timer = "armed"]
  <2> DEFINE b == [jobs[a].c EXCEPT !.op = "pending"]
  <2> DEFINE d == [b EXCEPT !.timer = "armed"]
  <2>1. /\ b \in ConnState /\ b.started = jobs[a].c.started /\ b.shut = jobs[a].c.shut
        /\ b.timer = jobs[a].c.timer /\ b.closed = jobs[a].c.closed
      BY <1>1, SetOp
  <2> HIDE DEF b
  <2>2. /\ d \in ConnState /\ ~d.started /\ ~d.shut /\ ~d.closed /\ d.timer = "armed"
      BY <1>2, <2>1, SetTimer
  <2>3. jobs' = [jobs EXCEPT ![a] = [pc |-> "connecting", cb |-> jobs[a].cb, c |-> d]]
    <3>1. [jobs[a] EXCEPT !.pc = "connecting"].c = jobs[a].c
        BY <1>1 DEF Job
    <3>2. jobs' = [jobs EXCEPT ![a] = [[jobs[a] EXCEPT !.pc = "connecting"] EXCEPT !.c = d]]
        BY <1>0, <1>1, <1>4, <3>1, Zenon DEF b, Job
    <3> HIDE DEF d
    <3>3. d \in ConnState /\ "connecting" \in JobPcs
        BY <2>2 DEF JobPcs
    <3>4. [[jobs[a] EXCEPT !.pc = "connecting"] EXCEPT !.c = d] =
             [pc |-> "connecting", cb |-> jobs[a].cb, c |-> d]
        BY <1>1, <3>3, SetPcConn, Zenon
    <3> QED
        BY <3>2, <3>4, Zenon
  <2> HIDE DEF d
  <2>4. JobOk(a, [pc |-> "connecting", cb |-> jobs[a].cb, c |-> d], Running)
      BY <1>0, <1>2, <2>2, MakeJob, Zenon DEF JobOk, AsyncOk, JobPcs
  <2>5. Counted(d) <=> Counted(jobs[a].c)
      BY <1>2, <2>2 DEF Counted
  <2> QED
      BY <1>0, <1>1, <2>2, <2>3, <2>4, <2>5, PcAndConn, Zenon DEF JobPcs, ServerInv, ServerTyped, Running
<1> QED
    BY <1>3, <1>4 DEF ConnectAsync

\* Only connect_async has a deadline.
LEMMA DeadlineExpiresInv ==
    ASSUME ServerInv, NEW a \in Jobs, DeadlineExpires(a)
    PROVE  ServerInv'
<1>1. jobs[a].c.timer = "armed" /\ UNCHANGED sv /\ jobs[a] \in Job /\ jobs[a].c \in ConnState
    BY JobFacts DEF DeadlineExpires
<1>2. a \in Asyncs /\ a \notin Idles /\ a \notin Accepts
    BY <1>1, JobFacts, AsyncApart DEF JobOk, IdleOk, AcceptOk, Jobs
<1> DEFINE d == [jobs[a].c EXCEPT !.timer = "due"]
<1>3. /\ d \in ConnState /\ d.started = jobs[a].c.started /\ d.shut = jobs[a].c.shut
      /\ d.timer = "due" /\ d.closed = jobs[a].c.closed
    BY <1>1, SetTimer
<1>4. jobs' = [jobs EXCEPT ![a].c = d]
    BY <1>1 DEF DeadlineExpires
<1> HIDE DEF d
<1>5. JobOk(a, [pc |-> jobs[a].pc, cb |-> jobs[a].cb, c |-> d], Running)
    BY <1>1, <1>2, <1>3, JobFacts, JobFields, MakeJob DEF JobOk, AsyncOk
<1>6. Counted(d) <=> Counted(jobs[a].c)
    BY <1>3 DEF Counted
<1> QED
    BY <1>1, <1>3, <1>4, <1>5, <1>6, ConnOnly, Zenon

\* The deadline closes a socket that was not started, and will not be.
LEMMA DeadlineRunsInv ==
    ASSUME ServerInv, NEW a \in Jobs, DeadlineRuns(a)
    PROVE  ServerInv'
<1>1. jobs[a].c.timer = "due" /\ UNCHANGED sv /\ jobs[a] \in Job /\ jobs[a].c \in ConnState
    BY JobFacts DEF DeadlineRuns
<1>2. a \in Asyncs /\ a \notin Idles /\ a \notin Accepts
    BY <1>1, JobFacts, AsyncApart DEF JobOk, IdleOk, AcceptOk, Jobs
<1> DEFINE x == IF jobs[a].c.op = "pending" THEN "error" ELSE jobs[a].c.op
<1> DEFINE d == CloseSocket(jobs[a].c)
<1>3. x \in {"none", "pending", "ok", "error"}
    BY <1>1, ConnFields
<1>4. jobs' = [jobs EXCEPT ![a].c = d]
    BY <1>1 DEF DeadlineRuns
<1> HIDE DEF x
<1>5. /\ d \in ConnState /\ d.started = jobs[a].c.started /\ d.shut = jobs[a].c.shut
      /\ d.timer = "off"
  <2> DEFINE e == [jobs[a].c EXCEPT !.timer = "off"]
  <2> DEFINE f == [e EXCEPT !.closed = TRUE]
  <2>1. e \in ConnState /\ e.started = jobs[a].c.started /\ e.shut = jobs[a].c.shut /\ e.timer = "off"
      BY <1>1 DEF ConnState
  <2> HIDE DEF e
  <2>2. f \in ConnState /\ f.started = e.started /\ f.shut = e.shut /\ f.timer = "off"
      BY <2>1, Zenon DEF ConnState
  <2> HIDE DEF f
  <2>3. d = [f EXCEPT !.op = x]
      BY DEF e, f, x, CloseSocket
  <2> HIDE DEF d
  <2> QED
      BY <1>3, <2>1, <2>2, <2>3, SetOp
<1> HIDE DEF d
<1>6. JobOk(a, [pc |-> jobs[a].pc, cb |-> jobs[a].cb, c |-> d], Running)
    BY <1>1, <1>2, <1>5, JobFacts, JobFields, MakeJob DEF JobOk, AsyncOk
<1>7. Counted(d) <=> Counted(jobs[a].c)
    BY <1>5 DEF Counted
<1> QED
    BY <1>1, <1>5, <1>4, <1>6, <1>7, ConnOnly, Zenon

\* The callback of async_connect: the deadline cancelled in time closed nothing.
LEMMA AsyncConnectedInv ==
    ASSUME ServerInv, NEW a \in Asyncs, AsyncConnected(a)
    PROVE  ServerInv'
<1>0. a \in Jobs /\ a \notin Idles /\ a \notin Accepts
    BY AsyncApart
<1>1. /\ jobs[a].pc = "connecting" /\ jobs \in [Jobs -> Job] /\ jobs[a] \in Job
      /\ a \notin sv.listed /\ jobs[a].c \in ConnState
    BY <1>0, JobFacts DEF AsyncConnected, Pc, ServerInv, ServerTyped
<1>2. /\ jobs[a].cb = <<>> /\ ~jobs[a].c.started /\ ~jobs[a].c.shut
      /\ jobs[a].c.timer = "armed" => ~jobs[a].c.closed
    BY <1>0, <1>1, JobFacts DEF JobOk, AsyncOk
<1>3. \A x \in CallbackResults : /\ <<x>> \in Seq(CallbackResults) /\ jobs[a].cb \o <<x>> = <<x>>
                         /\ Append(jobs[a].cb, x) = <<x>> /\ Len(<<x>>) = 1
                         /\ (x # "ok" => <<x>> # <<"ok">>)
    BY <1>2
<1>4. CASE Cancelled(jobs[a].c) /\ Start(a, "up", <<"ok">>, <<"fault">>)
  <2>1. ~jobs[a].c.closed
      BY <1>2, <1>4 DEF Cancelled
  <2>2. \A d \in ConnState : d.started /\ d.timer = "off" /\ ~d.closed
            => JobOk(a, [pc |-> "up", cb |-> <<"ok">>, c |-> d], Running)
      BY <1>0, <1>3, MakeJob, Zenon DEF JobOk, AsyncOk, JobPcs, CallbackResults
  <2>3. \A d \in ConnState : ~d.started /\ d.timer = "off"
            => JobOk(a, [pc |-> "back", cb |-> <<"fault">>, c |-> d], Running)
      BY <1>0, <1>3, MakeJob, Zenon DEF JobOk, AsyncOk, JobPcs, CallbackResults
  <2>4. /\ jobs[a].cb \o <<"ok">> = <<"ok">> /\ jobs[a].cb \o <<"fault">> = <<"fault">>
        /\ <<"ok">> \in Seq(CallbackResults) /\ <<"fault">> \in Seq(CallbackResults) /\ "up" \in JobPcs
      BY <1>3 DEF CallbackResults, JobPcs
  <2>5. \A d \in ConnState :
            d.started /\ d.timer = "off" /\ d.shut = jobs[a].c.shut /\ d.closed = jobs[a].c.closed
            => JobOk(a, [pc |-> "up", cb |-> jobs[a].cb \o <<"ok">>, c |-> d], Running)
      BY <2>1, <2>2, <2>4, Zenon
  <2>6. \A d \in ConnState :
            ~d.started /\ d.timer = "off" /\ d.shut /\ d.closed = jobs[a].c.closed
            => JobOk(a, [pc |-> "back", cb |-> jobs[a].cb \o <<"fault">>, c |-> d], Running)
      BY <2>3, <2>4, Zenon
  <2> QED
      BY <1>0, <1>2, <1>4, <2>4, <2>5, <2>6, StartInv, Zenon
<1>5. ASSUME NEW ec \in {"aborted", "error"}, UNCHANGED sv,
             jobs' = [jobs EXCEPT ![a] = [pc |-> "back", cb |-> Append(@.cb, ec),
                                          c |-> [@.c EXCEPT !.op = "none"]]]
      PROVE  ServerInv'
  <2> DEFINE d == [jobs[a].c EXCEPT !.op = "none"]
  <2> DEFINE r == [pc |-> "back", cb |-> <<ec>>, c |-> d]
  <2>1. /\ d \in ConnState /\ d.started = jobs[a].c.started /\ d.shut = jobs[a].c.shut
        /\ d.timer = jobs[a].c.timer /\ d.closed = jobs[a].c.closed
      BY <1>1, SetOp
  <2>2. jobs' = [jobs EXCEPT ![a] = r]
      BY <1>0, <1>1, <1>3, <1>5, Zenon DEF CallbackResults
  <2> HIDE DEF d
  <2>3. r \in Job /\ r.pc = "back" /\ r.cb = <<ec>> /\ r.c = d
      BY <1>3, <2>1, MakeJob, Zenon DEF CallbackResults, JobPcs
  <2>4. Len(<<ec>>) = 1 /\ <<ec>> # <<"ok">>
      BY <1>3 DEF CallbackResults
  <2> HIDE DEF r
  <2>5. JobOk(a, r, Running') /\ Running' = Running
      BY <1>0, <1>1, <1>2, <1>5, <2>1, <2>3, <2>4, JobFacts DEF JobOk, AsyncOk, Running
  <2>6. ~Counted(jobs[a].c) /\ ~Counted(r.c)
      BY <1>2, <2>1, <2>3 DEF Counted
  <2> QED
      BY <1>0, <1>1, <1>5, <2>2, <2>5, <2>6, OneJob, Zenon DEF ServerInv, ServerTyped
<1> QED
    BY <1>4, <1>5 DEF AsyncConnected

\* The flag of the stop alone changes nothing that is counted.
LEMMA StopFlagInv ==
    ASSUME ServerInv, StopFlag
    PROVE  ServerInv'
<1>1. /\ sv' \in SvType
      /\ Running' = Running /\ sv'.listed = sv.listed /\ sv'.hosts = sv.hosts
    BY Zenon DEF StopFlag, ServerInv, ServerTyped, Running, SvType
<1>2. jobs' = jobs /\ Open' = Open
    BY DEF StopFlag, Open
<1> QED
    BY <1>1, <1>2 DEF ServerInv, ServerTyped

\* Cancelling sets shut.
LEMMA CancelJob ==
    ASSUME NEW r \in Job
    PROVE  LET n == [r EXCEPT !.c.shut = TRUE]
           IN  /\ n \in Job /\ n.pc = r.pc /\ n.cb = r.cb /\ n.c \in ConnState
               /\ n.c.started = r.c.started /\ n.c.shut = TRUE /\ n.c.timer = r.c.timer
               /\ n.c.closed = r.c.closed /\ n.c.queued = r.c.queued
<1> DEFINE d == [r.c EXCEPT !.shut = TRUE]
<1>1. /\ d \in ConnState /\ d.started = r.c.started /\ d.shut = TRUE /\ d.timer = r.c.timer
      /\ d.closed = r.c.closed /\ d.queued = r.c.queued
    BY JobFields, Zenon DEF ConnState
<1>2. [r EXCEPT !.c.shut = TRUE] = [r EXCEPT !.c = d]
    OBVIOUS
<1> HIDE DEF d
<1> DEFINE n == [r EXCEPT !.c.shut = TRUE]
<1>3. n = [pc |-> r.pc, cb |-> r.cb, c |-> d]
    BY <1>1, <1>2, JobFields
<1> HIDE DEF n
<1>4. n \in Job /\ n.pc = r.pc /\ n.cb = r.cb /\ n.c = d
    BY <1>1, <1>3, JobFields, MakeJob
<1>5. /\ n \in Job /\ n.pc = r.pc /\ n.cb = r.cb /\ n.c \in ConnState
      /\ n.c.started = r.c.started /\ n.c.shut = TRUE /\ n.c.timer = r.c.timer
      /\ n.c.closed = r.c.closed /\ n.c.queued = r.c.queued
    BY <1>1, <1>4
<1> QED
    BY <1>5 DEF n

\* What the stop cancels has not started, so nothing is discounted.
LEMMA StopServiceInv ==
    ASSUME ServerInv, StopService
    PROVE  ServerInv'
<1>1. /\ sv' \in SvType
      /\ ~Running' /\ sv'.listed = {} /\ sv'.hosts = sv.hosts
    BY Zenon DEF StopService, ServerInv, ServerTyped, Running, SvType
<1>2. \A j \in Jobs : jobs[j] \in Job /\ JobOk(j, jobs[j], Running)
    BY JobFacts
<1>3. ASSUME NEW j \in Jobs, j \in sv.listed
      PROVE  /\ jobs'[j] \in Job /\ JobOk(j, jobs'[j], Running')
             /\ ~Counted(jobs[j].c) /\ ~Counted(jobs'[j].c)
  <2> DEFINE n == [jobs[j] EXCEPT !.c.shut = TRUE]
  <2>1. jobs'[j] = n
      BY <1>3 DEF StopService
  <2>2. /\ n \in Job /\ n.pc = jobs[j].pc /\ n.cb = jobs[j].cb
        /\ n.c.started = jobs[j].c.started /\ n.c.shut = TRUE /\ n.c.timer = jobs[j].c.timer
        /\ n.c.queued = jobs[j].c.queued
      BY <1>2, CancelJob, Zenon
  <2> HIDE DEF n
  <2>3. j \in Idles /\ j \notin Asyncs /\ j \notin Accepts /\ jobs[j].pc \in {"wait", "connected"}
      BY <1>3, JobFacts, JobsApart DEF ServerInv, ServerTyped, SvType
  <2>4. ~jobs[j].c.started
      BY <1>2, <2>3 DEF JobOk, IdleOk
  <2>5. JobOk(j, n, Running')
      BY <1>1, <1>2, <2>2, <2>3 DEF JobOk, IdleOk
  <2> QED
      BY <2>1, <2>2, <2>4, <2>5 DEF Counted
<1>4. ASSUME NEW j \in Jobs, j \notin sv.listed
      PROVE  /\ jobs'[j] = jobs[j] /\ JobOk(j, jobs'[j], Running')
  <2>1. jobs'[j] = jobs[j]
      BY <1>4 DEF StopService
  <2> QED
      BY <1>1, <1>2, <2>1 DEF JobOk, IdleOk
<1>5. jobs' \in [Jobs -> Job]
    BY <1>2, <1>3, <1>4, Zenon DEF StopService
<1>6. \A j \in Jobs : JobOk(j, jobs'[j], Running')
    BY <1>1, <1>3, <1>4
<1>7. Open' = Open
    BY <1>3, <1>4 DEF Open
<1> QED
    BY <1>1, <1>5, <1>6, <1>7 DEF ServerInv, ServerTyped

\* Each connection that CloseAll shuts down is discounted once.
LEMMA CloseAllInv ==
    ASSUME ServerInv, CloseAll
    PROVE  ServerInv'
<1> DEFINE now == [j \in Jobs |-> IF j \in Open THEN Close(jobs[j].c) ELSE jobs[j].c]
<1> DEFINE Gone == {j \in Open : now[j].shut}
<1>1. /\ jobs' = [j \in Jobs |-> [jobs[j] EXCEPT !.c = now[j]]]
      /\ sv' = [sv EXCEPT !.parting = TRUE, !.hosts = @ - Cardinality(Gone)]
    BY DEF CloseAll, Open
<1>2. ~Running
    BY DEF CloseAll, Running
<1>3. Open \subseteq Jobs /\ Gone \subseteq Open
    BY DEF Open
<1>4. ASSUME NEW j \in Jobs
      PROVE  /\ jobs'[j] \in Job /\ jobs'[j].pc = jobs[j].pc /\ JobOk(j, jobs'[j], FALSE)
             /\ Counted(jobs'[j].c) <=> j \in Open \ Gone
  <2>1. /\ jobs[j] \in Job /\ jobs[j].c \in ConnState /\ JobOk(j, jobs[j], Running)
        /\ (j \in Open <=> Counted(jobs[j].c))
      BY JobFacts DEF Open
  <2> DEFINE d == now[j]
  <2>2. jobs'[j] = [jobs[j] EXCEPT !.c = d]
      BY <1>1
  <2>3. /\ d \in ConnState /\ d.started = jobs[j].c.started /\ d.timer = jobs[j].c.timer
        /\ d.closed = jobs[j].c.closed /\ d.queued = jobs[j].c.queued
        /\ (jobs[j].c.shut => d.shut) /\ (~jobs[j].c.started => d.shut = jobs[j].c.shut)
    <3>1. CASE j \in Open
        BY <2>1, <3>1, CloseFields DEF Counted
    <3>2. CASE j \notin Open
        BY <2>1, <3>2
    <3> QED
        BY <3>1, <3>2
  <2>4. j \in Gone <=> j \in Open /\ d.shut
      OBVIOUS
  <2>5. j \notin Open => d = jobs[j].c
      OBVIOUS
  <2> HIDE DEF d, Gone
  <2> DEFINE n == [pc |-> jobs[j].pc, cb |-> jobs[j].cb, c |-> d]
  <2>6. jobs'[j] = n
      BY <2>1, <2>2, <2>3, JobFields
  <2>7. n \in Job /\ n.pc = jobs[j].pc /\ n.cb = jobs[j].cb /\ n.c = d
      BY <2>1, <2>3, JobFields, MakeJob
  <2> HIDE DEF n
  <2>8. JobOk(j, n, FALSE)
      BY <1>2, <2>1, <2>3, <2>7, ConnFields DEF JobOk, AsyncOk, AcceptOk, IdleOk
  <2>9. Counted(d) <=> j \in Open \ Gone
      BY <2>1, <2>3, <2>4, <2>5 DEF Counted
  <2> QED
      BY <2>6, <2>7, <2>8, <2>9, Zenon
<1>5. jobs' \in [Jobs -> Job]
    BY <1>1, <1>4, Zenon
<1>6. Open' = Open \ Gone
    BY <1>3, <1>4, Zenon DEF Open
<1>7. /\ Cardinality(Open) \in Nat /\ Cardinality(Gone) \in Nat
      /\ Cardinality(Open \ Gone) = Cardinality(Open) - Cardinality(Gone)
  <2> HIDE DEF Gone
  <2>1. /\ IsFiniteSet(Open) /\ IsFiniteSet(Gone)
        /\ Cardinality(Open) \in Nat /\ Cardinality(Gone) \in Nat
      BY <1>3, JobsFinite
  <2>2. Cardinality(Open \ Gone) = Cardinality(Open) - Cardinality(Open \cap Gone)
      BY <2>1, FS_Difference, Zenon
  <2>3. Open \cap Gone = Gone
      BY <1>3
  <2> QED
      BY <2>1, <2>2, <2>3, Zenon
<1> HIDE DEF now, Gone
<1> DEFINE h == sv.hosts - Cardinality(Gone)
<1>8. h \in Int /\ h >= Cardinality(Open \ Gone)
    BY <1>7 DEF ServerInv, ServerTyped, SvType
<1>9. sv' = [sv EXCEPT !.parting = TRUE, !.hosts = h]
    BY <1>1
<1> HIDE DEF h
<1>10. /\ sv' \in SvType
       /\ ~Running' /\ sv'.listed = sv.listed /\ sv'.hosts = h
    BY <1>2, <1>8, <1>9, Zenon DEF ServerInv, ServerTyped, Running, SvType
<1>11. \A j \in Jobs : JobOk(j, jobs'[j], Running')
    BY <1>4, <1>10 DEF JobOk, IdleOk
<1>12. \A i \in sv'.listed : jobs'[i].pc \in {"wait", "connected"}
  <2>1. \A i \in sv.listed : i \in Jobs
      BY DEF ServerInv, ServerTyped, Jobs, SvType
  <2> QED
      BY <1>4, <1>10, <2>1, Zenon DEF ServerInv
<1> QED
    BY <1>5, <1>6, <1>8, <1>10, <1>11, <1>12 DEF ServerInv, ServerTyped

\* Nothing has started.
LEMMA ServerInit ==
    ASSUME TcpInit
    PROVE  ServerInv
<1>1. /\ sv \in SvType
      /\ Running /\ sv.hosts = 0 /\ sv.listed = {}
    BY DEF TcpInit, Running, SvType
<1>2. /\ NewConnection \in ConnState /\ NewConnection.started = FALSE /\ NewConnection.shut = FALSE
      /\ NewConnection.timer = "none" /\ NewConnection.closed = FALSE
      /\ NewConnection.queued = FALSE
    BY DEF NewConnection, ConnState
<1>3. ASSUME NEW j \in Jobs
      PROVE  jobs[j] \in Job /\ JobOk(j, jobs[j], Running) /\ ~Counted(jobs[j].c)
  <2> DEFINE p == IF j \in Idles THEN "timer" ELSE "none"
  <2>1. jobs[j] = [pc |-> p, cb |-> <<>>, c |-> NewConnection] /\ <<>> \in Seq(CallbackResults)
      BY DEF TcpInit
  <2>2. p \in JobPcs /\ (j \in Idles => p = "timer") /\ (j \notin Idles => p = "none")
      BY DEF JobPcs
  <2> HIDE DEF p
  <2>3. jobs[j] \in Job /\ jobs[j].pc = p /\ jobs[j].cb = <<>> /\ jobs[j].c = NewConnection
    <3>1. [pc |-> p, cb |-> <<>>, c |-> NewConnection] \in Job
        BY <1>2, <2>1, <2>2, MakeJob, Zenon
    <3> QED
        BY <2>1, <3>1
  <2>4. JobOk(j, jobs[j], Running)
      BY <1>2, <2>2, <2>3, JobsApart DEF JobOk, AsyncOk, AcceptOk, IdleOk
  <2> QED
      BY <1>2, <2>3, <2>4 DEF Counted
<1>4. jobs \in [Jobs -> Job]
    BY <1>3, Zenon DEF TcpInit
<1>5. Open = {}
    BY <1>3 DEF Open
<1>6. Cardinality(Open) = 0
    BY <1>5, FS_EmptySet
<1>7. sv.hosts = Cardinality(Open) /\ sv.hosts >= Cardinality(Open)
    BY <1>1, <1>6
<1> QED
    BY <1>1, <1>3, <1>4, <1>7, Zenon DEF ServerInv, ServerTyped

\* Every step of the server keeps the invariant.
LEMMA ServerStep ==
    ASSUME ServerInv, [TcpNext]_tcpVars
    PROVE  ServerInv'
<1>1. CASE UNCHANGED tcpVars
    BY <1>1 DEF tcpVars, ServerInv, ServerTyped, Running, Open
<1>2. ASSUME NEW i \in Idles, IdleStep(i)
      PROVE  ServerInv'
    BY <1>2, IdleMovesInv, TryConnectInv, StartConnectedInv, HandshakeInv DEF IdleStep
<1>3. ASSUME NEW i \in Idles, IdleThrows(i) \/ Connect(i) \/ ConnectCallback(i) \/ Written(i) \/ Answered(i)
      PROVE  ServerInv'
    BY <1>3, IdleMovesInv, ConnectInv, ConnectCallbackInv, WrittenInv, AnsweredInv
<1>4. ASSUME NEW a \in Asyncs, ConnectAsync(a) \/ AsyncConnected(a)
      PROVE  ServerInv'
    BY <1>4, ConnectAsyncInv, AsyncConnectedInv
<1>5. ASSUME NEW j \in Jobs, HandleAccept(j) \/ ConnectionEnds(j) \/ NetworkAnswers(j)
      PROVE  ServerInv'
    BY <1>5, HandleAcceptInv, ConnectionEndsInv, NetworkAnswersInv
<1>6. ASSUME NEW j \in Jobs, TimeRuns(j)
      PROVE  ServerInv'
  <2>1. CASE InvokeTimesOut(j)
    <3>1. j \in Idles
        BY <2>1, JobFacts DEF InvokeTimesOut, Pc, JobOk, AsyncOk, AcceptOk, Jobs
    <3> QED
        BY <2>1, <3>1, AnsweredInv
  <2> QED
      BY <1>6, <2>1, DeadlineExpiresInv, DeadlineRunsInv DEF TimeRuns
<1>7. CASE StopFlag \/ StopService \/ CloseAll
    BY <1>7, StopFlagInv, StopServiceInv, CloseAllInv
<1> QED
    BY <1>1, <1>2, <1>3, <1>4, <1>5, <1>6, <1>7 DEF TcpNext

\* The invariant implies the property.
LEMMA ServerInvSound ==
    ASSUME ServerInv
    PROVE  ServerSound
<1>1. ASSUME NEW a \in Asyncs
      PROVE  /\ jobs[a].c.started => ~jobs[a].c.closed
             /\ Len(jobs[a].cb) <= 1 /\ (jobs[a].c.started <=> jobs[a].cb = <<"ok">>)
  <2>1. JobOk(a, jobs[a], Running)
      BY AsyncApart, JobFacts
  <2>2. <<>> # <<"ok">> /\ Len(<<>>) = 0 /\ Len(<<"ok">>) = 1
      OBVIOUS
  <2>3. CASE jobs[a].pc \in {"none", "connecting", "failed"}
    <3>1. jobs[a].cb = <<>> /\ ~jobs[a].c.started
        BY <2>1, <2>3 DEF JobOk, AsyncOk
    <3> QED
        BY <2>2, <3>1
  <2>4. CASE jobs[a].pc = "up"
    <3>1. jobs[a].cb = <<"ok">> /\ jobs[a].c.started /\ ~jobs[a].c.closed
        BY <2>1, <2>4 DEF JobOk, AsyncOk
    <3>2. Len(jobs[a].cb) <= 1
        BY <3>1
    <3> QED
        BY <3>1, <3>2, Zenon
  <2>5. CASE jobs[a].pc = "back"
    <3>1. Len(jobs[a].cb) = 1 /\ jobs[a].cb # <<"ok">> /\ ~jobs[a].c.started
        BY <2>1, <2>5 DEF JobOk, AsyncOk
    <3> QED
        BY <3>1
  <2> QED
      BY <2>1, <2>3, <2>4, <2>5 DEF JobOk, AsyncOk
<1>2. HostsCounted
    BY DEF ServerInv, HostsCounted, Open, Running
<1> QED
    BY <1>1, <1>2 DEF ServerSound, DeadlineSparesStarted, AsyncCallsBackOnce

\* boosted_tcp_server, for any number of idle handlers, connect_async calls and
\* incoming connections: no deadline closes a socket that was started, every
\* connect_async is called back at most once and with "ok" just when its connection
\* started, and host_count is exact until a stop and never too low after it.
THEOREM ServerIsSound == TcpSpec => []ServerSound
<1>1. TcpInit => ServerInv
    BY ServerInit
<1>2. ServerInv /\ [TcpNext]_tcpVars => ServerInv'
    BY ServerStep
<1>3. ServerInv => ServerSound
    BY ServerInvSound
<1> QED
    BY <1>1, <1>2, <1>3, PTL DEF TcpSpec
=============================================================================
