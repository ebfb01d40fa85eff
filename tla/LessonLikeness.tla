----------------------------- MODULE LessonLikeness -----------------------------
(* The gate's verdicts over the drafts of LessonTexts, as the relations that      *)
(* LearningGeneration takes for constants.                                      *)
EXTENDS LessonTexts

Placed == [t : Topics, n : 0..2, d : Names]
Text(x) == Normal(x.t, x.n, x.d)

Fits ==
  {<<x.t, x.n, x.d>> : x \in {y \in Placed : Gate!Fits(Request(y.t), Text(y), y.n)}}

Alike ==
  {<<x[1].t, x[1].n, x[1].d, x[2].n, x[2].d>> :
    x \in {y \in Placed \X Placed :
      y[1].t = y[2].t /\ Gate!Repeats(Text(y[1]), Gate!Prior(Text(y[2])))}}
=================================================================================
