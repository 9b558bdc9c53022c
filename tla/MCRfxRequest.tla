---------------------------- MODULE MCRfxRequest ----------------------------
(* RfxRequest with values for its constants. *)
EXTENDS RfxRequest, TLC

CONSTANTS a, b, d,      \* requests of the serialising controller c1
          x, n,         \* requests without a TelCore controller; n has no data class
          u,            \* a request with an unknown id
          c1, h1, h2, main

\* Two requests of the controller, one of them without a handler, race one to
\* another channel and one that is answered at once.
MixedRequest == {a, b, x, u}
MixedOwner == [r \in MixedRequest |-> IF r \in {a, b} THEN c1 ELSE None]
MixedHome == (a :> h1 @@ b :> None @@ x :> h2 @@ u :> None)

\* Three requests of one controller, for two channels and for no handler, so that
\* one is in flight and two are suspended, and one the main thread refuses.
SerialRequest == {a, b, d, n}
SerialOwner == [r \in SerialRequest |-> IF r = n THEN None ELSE c1]
SerialHome == (a :> h1 @@ b :> h2 @@ d :> None @@ n :> None)
=============================================================================
