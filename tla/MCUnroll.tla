------------------------------ MODULE MCUnroll ------------------------------
EXTENDS Unroll

G(t, edges) == [type |-> t, in |-> edges]

\* Two latches in a row, the second fed inverted; the gate 5 says both are 0.
Shift ==
    [gate |-> (0 :> G("const", <<>>)) @@ (1 :> G("pi", <<>>))
        @@ (2 :> G("ro", <<<<7, FALSE>>>>)) @@ (3 :> G("ro", <<<<8, FALSE>>>>))
        @@ (4 :> G("aig", <<<<2, FALSE>>, <<3, TRUE>>>>))
        @@ (5 :> G("aig", <<<<2, TRUE>>, <<3, TRUE>>>>))
        @@ (7 :> G("ri", <<<<1, FALSE>>>>)) @@ (8 :> G("ri", <<<<2, TRUE>>>>))
        @@ (9 :> G("po", <<<<4, FALSE>>>>)),
     pos |-> <<9>>]

\* A latch that toggles while the input is 1, and a constant in the cone.
Toggle ==
    [gate |-> (0 :> G("const", <<>>)) @@ (1 :> G("pi", <<>>))
        @@ (2 :> G("ro", <<<<8, FALSE>>>>))
        @@ (3 :> G("aig", <<<<1, FALSE>>, <<2, TRUE>>>>))
        @@ (4 :> G("aig", <<<<1, TRUE>>, <<2, FALSE>>>>))
        @@ (5 :> G("aig", <<<<3, TRUE>>, <<4, TRUE>>>>))
        @@ (6 :> G("aig", <<<<0, TRUE>>, <<2, TRUE>>>>))
        @@ (8 :> G("ri", <<<<5, TRUE>>>>))
        @@ (9 :> G("po", <<<<4, TRUE>>>>)),
     pos |-> <<9>>]

\* The output is reached by way of two latches, one of which keeps a 1.
Sticky ==
    [gate |-> (0 :> G("const", <<>>)) @@ (1 :> G("pi", <<>>)) @@ (2 :> G("ro", <<<<8, FALSE>>>>))
        @@ (3 :> G("ro", <<<<9, FALSE>>>>))
        @@ (4 :> G("aig", <<<<2, TRUE>>, <<1, TRUE>>>>))
        @@ (5 :> G("aig", <<<<2, TRUE>>, <<3, TRUE>>>>))
        @@ (6 :> G("aig", <<<<2, FALSE>>, <<3, FALSE>>>>))
        @@ (8 :> G("ri", <<<<4, TRUE>>>>)) @@ (9 :> G("ri", <<<<6, TRUE>>>>))
        @@ (10 :> G("po", <<<<6, FALSE>>>>)),
     pos |-> <<10>>]

MCCircuits == {Shift, Toggle, Sticky}
\* AND gates, inputs, latch outputs, the constant, a missing id and an output.
MCTargets == ({"gate"} \X {0, 1, 2, 3, 4, 6}) \cup {<<"gate", 11>>, <<"output", 1>>, <<"output", 2>>}
=============================================================================
