--------------------------- MODULE MCCertificates ---------------------------
(***************************************************************************)
(* One call of a library in a behaviour: an entry point of certificate.cpp *)
(* (enumerate, assemble, validate), a session in a quotient ring (poly.cpp)*)
(* or a polynomial taken apart (poly.cpp, factor.cpp), or the smooth parts *)
(* of curve and twist orders (exact_smooth.cpp).                           *)
(***************************************************************************)
EXTENDS CandidateEnumeration, CertificateAssembly, CertificateValidation,
        PolySession, PolyFactors, SmoothEngine

VARIABLE call

-----------------------------------------------------------------------------
(* The instances.                                                          *)

Input(p, order, smoothPart) == [prime |-> p, order |-> order, smooth |-> smoothPart]

\* Every order over F_101, some rich ones over larger fields, and smooth parts
\* below the bound or not dividing.
MCOrders ==
  {Input(101, n, n) : n \in 80 .. 123}
    \cup {Input(101, 120, s) : s \in {1, 12, 17, 20, 40, 60, 121}}
    \cup {Input(1009, n, n) : n \in {945, 960, 1001, 1024, 1050, 1056}}
    \cup {Input(1009, 1050, 525), Input(10007, 10080, 10080), Input(10007, 10164, 10164)}

MCLimits ==
  {[candidates |-> 4096, nodes |-> 4096], [candidates |-> 2, nodes |-> 4096],
   [candidates |-> 4096, nodes |-> 10], [candidates |-> 1, nodes |-> 3]}

\* A monic and a non-monic modulus of degree 4, and one below the reciprocal.
MCQuotients ==
  {[p |-> 3, modulus |-> <<1, 2, 0, 1, 1>>], [p |-> 3, modulus |-> <<2, 1, 0, 1, 2>>],
   [p |-> 7, modulus |-> <<3, 1, 1>>]}

\* Cubics and quadratics over F_5, quartics and inseparable sextics over F_3.
MCTargets ==
  {[kind |-> "roots", p |-> 5, target |-> s \o <<1>>] : s \in [1 .. 3 -> 0 .. 4]}
    \cup {[kind |-> "roots", p |-> 5, target |-> <<a, 1, 2>>] : a \in 0 .. 4}
    \cup {[kind |-> "roots", p |-> 5, target |-> <<0, 4, 0, 0, 0, 1>>],
          [kind |-> "roots", p |-> 7, target |-> <<0, 1, 0, 3, 0, 1>>]}
    \cup {[kind |-> "factors", p |-> 3, target |-> s \o <<2>>] : s \in [1 .. 4 -> 0 .. 2]}
    \cup {[kind |-> "factors", p |-> 3, target |-> <<a, 0, 0, b, 0, 0, 1>>] : a \in 0 .. 2, b \in 0 .. 2}
    \cup {[kind |-> "factors", p |-> 3, target |-> <<a, 2>>] : a \in 0 .. 2}

\* Groups with no trace, batches that cut a curve from its twist, memory for
\* one, two or all chunks or too little, and a trace without an order.
MCExtractions ==
  {[prime |-> 23, groups |-> g, span |-> s, batch |-> b, auxiliary |-> a] :
     g \in {<<<<1, -5>>, <<9>>>>, <<<<>>, <<8, 7, 0>>>>, <<<<-9>>, <<>>, <<2>>>>},
     s \in {3, 5, 23, 40}, b \in {1, 2, 3}, a \in {16, 24, 32, 64, 4096}}
  \cup {[prime |-> 23, groups |-> <<<<23>>>>, span |-> 7, batch |-> 2, auxiliary |-> 4096]}

-----------------------------------------------------------------------------

Init ==
  \/ /\ call \in {"enumerate", "assemble", "validate"}
     /\ IF call = "enumerate" THEN EnumerateInit ELSE NoEnumeration
     /\ IF call = "assemble"  THEN AssembleInit  ELSE NoAssembly
     /\ IF call = "validate"  THEN ValidateInit  ELSE NoValidation
     /\ NoSession /\ NoSplitting /\ NoExtraction
  \/ /\ call \in {"session", "split", "extract"}
     /\ IF call = "session" THEN SessionInit    ELSE NoSession
     /\ IF call = "split"   THEN SplittingInit  ELSE NoSplitting
     /\ IF call = "extract" THEN ExtractionInit ELSE NoExtraction
     /\ NoEnumeration /\ NoAssembly /\ NoValidation

Next ==
  /\ \/ call = "enumerate" /\ Enumerate
        /\ UNCHANGED <<assembly, validation, session, splitting, engine>>
     \/ call = "assemble" /\ Assemble
        /\ UNCHANGED <<enumeration, validation, session, splitting, engine>>
     \/ call = "validate" /\ Validate
        /\ UNCHANGED <<enumeration, assembly, session, splitting, engine>>
     \/ call = "session" /\ Operate
        /\ UNCHANGED <<enumeration, assembly, validation, splitting, engine>>
     \/ call = "split" /\ TakeApart
        /\ UNCHANGED <<enumeration, assembly, validation, session, engine>>
     \/ call = "extract" /\ Extract
        /\ UNCHANGED <<enumeration, assembly, validation, session, splitting>>
  /\ UNCHANGED call

everything == <<call, enumeration, assembly, validation, session, splitting, engine>>

Spec == Init /\ [][Next]_everything

=============================================================================
