------------------------------- MODULE NSect -------------------------------
(* The search for the highest element that matches (utils, NSect): matching   *)
(* elements come first, and a probe of n + 1 elements answers the highest of  *)
(* them that matches. An honest prober knows up to where elements match; any  *)
(* other answers what it likes.                                               *)
EXTENDS Integers, FiniteSetsExt

CONSTANTS NAry,      \* the number of parts a range is cut into
          Elements,  \* bound: elements are searched in a range within 1..Elements
          NotFound   \* undefined

NSectAssumption == NAry \in Nat \ {0, 1} /\ Elements \in Nat \ {0} /\ NotFound \notin Int

VARIABLES search,    \* [first, last: the whole range; low, high: what is left; highest, calls, ended]
          matching,  \* the highest element that matches
          honest     \* the prober says so

vars == <<search, matching, honest>>

\* Math.round of a / b.
Round(a, b) == (2 * a + b) \div (2 * b)

Probes(low, high) == {low + Round((high - low) * i, NAry) : i \in 0..NAry}

Begun(low, high) ==
    [first |-> low, last |-> high, low |-> low, high |-> high,
     highest |-> NotFound, calls |-> 0, ended |-> FALSE]

\* One turn of the loop, after the probe's answer.
After(s, answer) ==
    LET probes == Probes(s.low, s.high)
        next   == Min({p \in probes : p > answer})
    IN  IF answer = NotFound THEN [s EXCEPT !.ended = TRUE, !.calls = @ + 1]
        ELSE IF s.low + NAry >= s.high \/ answer = Max(probes) \/ answer + 1 = next
        THEN [s EXCEPT !.highest = answer, !.ended = TRUE, !.calls = @ + 1]
        ELSE [s EXCEPT !.highest = answer, !.low = answer + 1, !.high = next - 1, !.calls = @ + 1]

-----------------------------------------------------------------------------
Truth == LET below == {p \in Probes(search.low, search.high) : p <= matching}
         IN  IF below = {} THEN NotFound ELSE Max(below)

Init ==
    /\ honest \in BOOLEAN /\ matching \in 0..Elements
    /\ \E low, high \in 1..Elements : low <= high /\ search = Begun(low, high)

Probe ==
    /\ ~search.ended
    /\ \E answer \in Probes(search.low, search.high) \union {NotFound} :
          /\ honest => answer = Truth
          /\ search' = After(search, answer)
    /\ UNCHANGED <<matching, honest>>

Next == Probe

Spec == Init /\ [][Next]_vars

-----------------------------------------------------------------------------
\* The assertions of nsect.ts: the range that is left is not empty, and it lies
\* above what was found.
TypeOK ==
    /\ search.first <= search.low /\ search.high <= search.last
    /\ search.low <= search.high
    /\ search.highest \in search.first..search.last \union {NotFound}
    /\ search.ended \in BOOLEAN /\ search.calls \in Nat

\* What an honest prober is asked for is found, from any range.
FindsHighest ==
    search.ended /\ honest =>
        search.highest = IF matching < search.first THEN NotFound ELSE Min({matching, search.last})

\* NAry to the power of k.
Power(k) == LET power[i \in 0..k] == IF i = 0 THEN 1 ELSE NAry * power[i - 1] IN power[k]

\* "Number of database and network calls is log_8(interval length)"
\* (peer-verifier.ts), rounded up, whatever the answers: in particular it ends.
FewCalls == search.calls <= 1 \/ Power(search.calls - 1) < search.last - search.first + 1
=============================================================================
