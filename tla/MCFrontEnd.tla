----------------------------- MODULE MCFrontEnd -----------------------------
(* The instance of FrontEnd that TLC checks.                               *)
EXTENDS FrontEnd, TLC

CONSTANTS s1, s2, v1, v2, own, t1, t2, original, blank

\* A file with a server and another that is off, and one that changes the server,
\* hides one of its tools and sets the fallback.
MCContents ==
    {[servers |-> (s1 :> v1 @@ s2 :> Off), exclude |-> {}, setting |-> Unset],
     [servers |-> (s1 :> v2 @@ s2 :> Unlisted), exclude |-> {t1}, setting |-> blank]}

MCOwn == <<own>>

MCOffers == s1 :> (v1 :> <<t1, t2>> @@ v2 :> <<t2, t1>>) @@
            s2 :> (v1 :> <<>> @@ v2 :> <<>>)

=============================================================================
