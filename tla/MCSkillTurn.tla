------------------------------ MODULE MCSkillTurn ------------------------------
(* Two skill files, named in every way that two files can conflict.        *)
EXTENDS SkillTurn

MCUnder == [d \in {"one", "two", "both"} |->
  CASE d = "one" -> <<1>> [] d = "two" -> <<2>> [] d = "both" -> <<1, 2>>]

MCLayouts ==
  { [repo |-> <<"both">>, user |-> <<>>, system |-> <<>>],
    [repo |-> <<"one">>, user |-> <<"both">>, system |-> <<>>],
    [repo |-> <<>>, user |-> <<"one">>, system |-> <<"two", "one">>] }

Good(n, off, needs) == [state |-> "good", name |-> n, off |-> off, needs |-> needs]

MCFiles ==
  { Good("a", FALSE, FALSE), Good("a", TRUE, FALSE), Good("b", FALSE, TRUE),
    Good("b", FALSE, FALSE) }
  \union {[state |-> s] : s \in {"absent", "malformed", "binary"}}

(* Two files at first, the first of which is found first; what an edit may *)
(* make of them may be there from the first step.                          *)
MCInstalled ==
  LET first == {Good("a", FALSE, FALSE), Good("a", TRUE, FALSE), Good("b", FALSE, TRUE),
                [state |-> "malformed"]}
      second == {Good("a", FALSE, FALSE), Good("a", TRUE, FALSE), Good("b", FALSE, FALSE),
                 Good("b", FALSE, TRUE)}
  IN  {<<f, g>> : f \in first, g \in second}

Plain(n) == [name |-> n, code |-> FALSE]

MCEdited == {Good("a", TRUE, FALSE)} \union {[state |-> s] : s \in {"absent", "binary"}}

MCTexts == { <<Plain("a"), Plain("b"), Plain("a")>>,
             <<[name |-> "a", code |-> TRUE], Plain("b")>> }

MCAnswers == { <<Plain("b"), Plain("a")>> }
===============================================================================
