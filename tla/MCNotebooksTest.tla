-------------------------- MODULE MCNotebooksTest --------------------------
(* The plans of the tests, after the presets of testing/notebooks/config.yaml. *)
EXTENDS NotebooksTest, TLC

Base ==
    ("mode" :> "simple") @@ ("users" :> 3) @@ ("batch" :> 2) @@ ("repeat" :> 1)
    @@ ("ups" :> <<1, 3>>) @@ ("rhods" :> TRUE) @@ ("dir" :> <<>>)

Plan(change) ==
    [gating |-> FALSE, config |-> change @@ Base, presets |-> <<>>, single |-> FALSE,
     keep |-> FALSE, createOnly |-> FALSE]
Gating(presets) == [Plan(<<>>) EXCEPT !.gating = TRUE, !.presets = presets]

ScaleTest == ("users" :> 3) @@ ("repeat" :> 2)
Performance == ("mode" :> "notebook") @@ ("users" :> 1)
Scaleup(ups) == ("mode" :> "scaleup") @@ ("ups" :> ups)

MCPlans ==
    {Plan(ScaleTest),
     [Plan(ScaleTest) EXCEPT !.keep = TRUE],
     Plan(Scaleup(<<1, 3>>)), Plan(Scaleup(<<3, 1>>)), Plan(Scaleup(<<3>>) @@ ("repeat" :> 2)),
     Gating(<<ScaleTest, Performance>>),
     Gating(<<Performance @@ ("rhods" :> FALSE), ScaleTest>>),
     Gating(<<Scaleup(<<3>>), "repeat" :> 1>>)}
    \union {[Plan("mode" :> "burst") EXCEPT !.single = b, !.createOnly = c] :
                b \in BOOLEAN, c \in BOOLEAN}
=============================================================================
