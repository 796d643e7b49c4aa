------------------------ MODULE CandidateEnumeration ------------------------
(***************************************************************************)
(* enumerate_certificate_candidates (certificate.cpp): the two greedy      *)
(* choices, then a depth-first search over the divisors of the smooth part *)
(* for every least prime, under limits on candidates and on nodes.  The    *)
(* recursion of the lambda descend is a stack of frames.                   *)
(***************************************************************************)
EXTENDS CertificateBounds

CONSTANTS
  Orders,   \* records: prime, order, smooth; the engine's bound is n^4
  Limits    \* records: candidates, nodes

ASSUME OrdersAssumption ==
  \A o \in Orders :
    /\ o.prime \in Nat /\ o.prime > 3 /\ o.prime % 2 = 1
    /\ o.order \in Nat /\ o.order > 0 /\ o.smooth \in Nat
    /\ \A i \in 1 .. Len(PrimesOf(o.smooth)) : PrimesOf(o.smooth)[i] <= Bounds(o.prime).n4
ASSUME LimitsAssumption ==
  \A l \in Limits :
    l.candidates \in Nat /\ l.candidates > 0 /\ l.nodes \in Nat /\ l.nodes > 0

VARIABLES
  input, limits,
  factors, bounds, \* of the input
  pc,
  preferred,       \* the point orders of the two greedy choices, or NoOrder
  least_index, stack, selected_exponents,
  visited,         \* candidates handed to the visitor: point order and primes
  nodes,           \* search_nodes_visited
  result           \* failure, limit and stopped_early

enumeration == <<input, limits, factors, bounds, pc, preferred, least_index, stack,
                 selected_exponents, visited, nodes, result>>

Called(o, l) ==
  /\ input = o
  /\ limits = l
  /\ bounds = Bounds(o.prime)
  /\ factors = Factorization(o.smooth)
  /\ preferred = <<NoOrder, NoOrder>>
  /\ least_index = 1
  /\ stack = <<>>
  /\ selected_exponents = [i \in 1 .. Len(factors.primes) |-> 0]
  /\ visited = <<>>
  /\ nodes = 0
  /\ result = [failure |-> "none", limit |-> "none", stopped_early |-> FALSE]

EnumerateInit == pc = "prepare" /\ \E o \in Orders, l \in Limits : Called(o, l)

\* Nothing was called: another part of certificate.cpp is at work.
NoEnumeration == pc = "idle" /\ Called(CHOOSE o \in Orders : TRUE, CHOOSE l \in Limits : TRUE)

PrimeAt(i) == factors.primes[i]
FactorCount == Len(factors.primes)
Finish(outcome) == pc' = "done" /\ result' = outcome

\* visit: the limit, then the visitor, which may end the enumeration.
Visit(order, primes, next) ==
  IF Len(visited) = limits.candidates
  THEN Finish([result EXCEPT !.limit = "candidates"]) /\ UNCHANGED visited
  ELSE /\ visited' = Append(visited, [order |-> order, primes |-> primes])
       /\ \/ pc' = next /\ UNCHANGED result
          \/ Finish([result EXCEPT !.stopped_early = TRUE])

-----------------------------------------------------------------------------
(* The compatibility choices.                                              *)

Prepare ==
  /\ pc = "prepare"
  /\ LET failure == PrepareFailure(input.prime, input.order, input.smooth) IN
     IF failure # "none"
     THEN Finish([result EXCEPT !.failure = failure]) /\ UNCHANGED preferred
     ELSE IF \E i \in 1 .. FactorCount : PrimeAt(i) > bounds.n4
     THEN Finish([result EXCEPT !.failure = "no_admissible_divisor"]) /\ UNCHANGED preferred
     ELSE /\ preferred' = [preferred EXCEPT ![1] = PreferredOrder(factors, bounds, FALSE)]
          /\ pc' = "preferred"
          /\ UNCHANGED result
  /\ UNCHANGED <<input, limits, factors, bounds, least_index, stack, selected_exponents,
                 visited, nodes>>

Preferred ==
  /\ pc = "preferred"
  /\ IF preferred[1] # NoOrder
     THEN Visit(preferred[1], PrimesOf(preferred[1]), "preferred_odd")
     ELSE pc' = "preferred_odd" /\ UNCHANGED <<visited, result>>
  /\ UNCHANGED <<input, limits, factors, bounds, preferred, least_index, stack,
                 selected_exponents, nodes>>

\* The second choice counts only if it differs.
PreferredOddOrder(odd, first) == IF odd = first THEN NoOrder ELSE odd

PreferredOdd ==
  /\ pc = "preferred_odd"
  /\ LET second == PreferredOddOrder(PreferredOrder(factors, bounds, TRUE), preferred[1]) IN
     /\ preferred' = [preferred EXCEPT ![2] = second]
     /\ IF second # NoOrder
        THEN Visit(second, PrimesOf(second), "descend")
        ELSE pc' = "descend" /\ UNCHANGED <<visited, result>>
  /\ UNCHANGED <<input, limits, factors, bounds, least_index, stack, selected_exponents, nodes>>

-----------------------------------------------------------------------------
(* The exhaustive search.                                                  *)

\* suffix_maximum: the largest product of the factors that are left.
SuffixMaximum(index) ==
  LET maximum[i \in 1 .. FactorCount + 1] ==
        IF i = FactorCount + 1 THEN 1
        ELSE maximum[i + 1] * Power(PrimeAt(i), factors.exponents[i])
  IN maximum[index]

UpperBound == bounds.lower * PrimeAt(least_index)

Pruned_Strict(index, partial) ==
  partial >= UpperBound \/ partial * SuffixMaximum(index) <= bounds.lower + 1

\* No completion of this partial product can be in the window.
Pruned(index, partial) ==
  partial >= UpperBound \/ partial * SuffixMaximum(index) <= bounds.lower

Frame(index, partial) ==
  [index |-> index, partial |-> partial, called |-> TRUE,
   exponent |-> IF index = least_index THEN 1 ELSE 0]

\* The next least prime, or the end of the loop over them.
Root ==
  /\ pc = "descend" /\ stack = <<>>
  /\ IF least_index <= FactorCount
     THEN stack' = <<Frame(least_index, 1)>> /\ UNCHANGED <<pc, result>>
     ELSE /\ Finish([result EXCEPT
               !.failure = IF visited = <<>> THEN "no_admissible_divisor" ELSE @])
          /\ UNCHANGED stack
  /\ UNCHANGED <<input, limits, factors, bounds, preferred, least_index, selected_exponents,
                 visited, nodes>>

\* Returning from the root moves on to the next least prime.
Return(frames) ==
  /\ stack' = frames
  /\ least_index' = IF frames = <<>> THEN least_index + 1 ELSE least_index

IsPreferred(order) == order \in {preferred[1], preferred[2]}

SelectedPrimes_All == factors.primes

\* candidate_from_factor_exponents
SelectedPrimes ==
  Ascending({PrimeAt(i) : i \in {j \in 1 .. FactorCount : selected_exponents[j] # 0}})

\* Entry of descend: limit, count, prune, leaf or loop.
Descend ==
  /\ pc = "descend" /\ stack # <<>> /\ Head(stack).called
  /\ LET frame == Head(stack)
         leaf  == frame.index = FactorCount + 1
     IN IF nodes = limits.nodes
        THEN /\ Finish([result EXCEPT !.limit = "search_nodes"])
             /\ UNCHANGED <<stack, least_index, visited, nodes>>
        ELSE /\ nodes' = nodes + 1
             /\ CASE Pruned(frame.index, frame.partial) ->
                       Return(Tail(stack)) /\ UNCHANGED <<pc, visited, result>>
                  [] ~Pruned(frame.index, frame.partial) /\ leaf /\
                     (frame.partial <= bounds.lower \/ IsPreferred(frame.partial)) ->
                       Return(Tail(stack)) /\ UNCHANGED <<pc, visited, result>>
                  [] ~Pruned(frame.index, frame.partial) /\ leaf /\
                     ~(frame.partial <= bounds.lower \/ IsPreferred(frame.partial)) ->
                       /\ Return(Tail(stack))
                       /\ Visit(frame.partial, SelectedPrimes, "descend")
                  [] OTHER ->
                       /\ stack' = <<[frame EXCEPT !.called = FALSE]>> \o Tail(stack)
                       /\ UNCHANGED <<pc, least_index, visited, result>>
  /\ UNCHANGED <<input, limits, factors, bounds, preferred, selected_exponents>>

\* One turn of the loop over exponents, or its end with the reset.
Loop ==
  /\ pc = "descend" /\ stack # <<>> /\ ~Head(stack).called
  /\ LET frame == Head(stack)
         next  == frame.partial * Power(PrimeAt(frame.index), frame.exponent)
     IN IF frame.exponent <= factors.exponents[frame.index] /\ next < UpperBound
        THEN /\ selected_exponents' = [selected_exponents EXCEPT ![frame.index] = frame.exponent]
             /\ stack' = <<Frame(frame.index + 1, next),
                           [frame EXCEPT !.exponent = @ + 1]>> \o Tail(stack)
             /\ UNCHANGED least_index
        ELSE /\ selected_exponents' = [selected_exponents EXCEPT ![frame.index] = 0]
             /\ Return(Tail(stack))
  /\ UNCHANGED <<input, limits, factors, bounds, pc, preferred, visited, nodes, result>>

Enumerate ==
  Prepare \/ Preferred \/ PreferredOdd \/ Root \/ Descend \/ Loop

-----------------------------------------------------------------------------
(* Properties.                                                             *)

\* What a certificate may be built on, by definition: L < D < L * r for the
\* least prime r, which is the least of all divisors above one.
AdmissibleOrders ==
  [o \in Orders |->
     {d \in 2 .. o.smooth :
        /\ Divides(d, o.smooth)
        /\ d > Bounds(o.prime).lower
        /\ \A r \in 2 .. d : Divides(r, d) => d < Bounds(o.prime).lower * r}]

Admissible == AdmissibleOrders[input]

VisitedOrders == {visited[i].order : i \in 1 .. Len(visited)}

\* AdmissibleOnce: the visitor sees admissible orders only and none of them
\* twice, although the greedy choices and the search overlap; an enumeration
\* that was neither limited nor stopped has visited every admissible order, so
\* one that failed for want of a divisor had none and the curve is rightly given
\* up; and the candidate limit, which ends the search with an exception, is
\* reported only when a candidate is left (enumerate_certificate_candidates).
AdmissibleOnce ==
  /\ VisitedOrders \subseteq Admissible
  /\ Cardinality(VisitedOrders) = Len(visited)
  /\ (pc = "done" /\ result.limit = "none" /\ ~result.stopped_early /\
      result.failure \in {"none", "no_admissible_divisor"})
       => VisitedOrders = Admissible
  /\ result.limit = "candidates" => Admissible \ VisitedOrders # {}

\* PrimesMatch: the primes of a candidate, collected from exponents that other
\* branches of the search have written, are those that divide its order.
PrimesMatch ==
  \A i \in 1 .. Len(visited) : visited[i].primes = PrimesOf(visited[i].order)

=============================================================================
