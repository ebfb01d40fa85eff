------------------------- MODULE MCLearningGeneration -------------------------
EXTENDS LearningGeneration

CONSTANTS r1, r2

MCKindsOf == [r \in Requests |-> IF r = r1 THEN Kinds ELSE {"quest"}]

Texts == INSTANCE LessonLikeness
MCTopics == Texts!Topics
MCDrafts == Texts!Names
MCPriors == {<<"alpha">>, <<"beta", "alpha">>}
MCFits == Texts!Fits
MCAlike == Texts!Alike
===============================================================================
