---------------------------- MODULE MCOdsIngest ----------------------------
(* Instances of OdsIngest for TLC. *)
EXTENDS OdsIngest

\* Companies become org profiles, talents person profiles,
\* patents are read for their concepts; "news" has no mapping.

MCTypeOf == [t \in Tables |->
  CASE t = "company" -> "org" [] t = "talent" -> "person" [] OTHER -> "tech"]
MCTypes == {"org", "person", "tech"}
MCRows == Tables \X (1..MaxKey)
MCIds == {"a", "b"}

\* Rows 1 and 3 of a table describe the same entity, row 2 another one.
MCEntityOf == [x \in MCRows |-> IF x[2] % 2 = 1 THEN "a" ELSE "b"]
\* Rows 1 and 4 describe the one, 2 and 3 the other: two batches of two write
\* the same profiles in opposite orders.
MCReversed == [x \in MCRows |-> IF x[2] \in {1, 4} THEN "a" ELSE "b"]
\* As MCEntityOf, but row 2 of the companies has neither a key nor a name.
MCAnonymous == [x \in MCRows |->
  IF x = <<"company", 2>> THEN "none" ELSE IF x[2] % 2 = 1 THEN "a" ELSE "b"]
\* Row 1 of the companies names a person, row 2 the company of row 1.
MCRelated == [x \in MCRows |->
  CASE x = <<"company", 1>> -> {<<"person", "a">>}
    [] x = <<"company", 2>> -> {<<"org", "a">>}
    [] x = <<"talent", 1>> -> {<<"org", "b">>}
    [] OTHER -> {}]
\* Content mining finds one relation in the attachments.
MCMined == {<<<<"org", "a">>, <<"person", "b">>>>}
NoRelated == [x \in MCRows |-> {}]
MCTerms == [x \in MCRows |->
  CASE x[1] # "patent" -> {}
    [] x[2] = 1 -> {"c1", "c2"}
    [] OTHER -> {"c1"}]
\* The same orders for the concepts of the patents.
MCCrossTerms == [x \in MCRows |->
  CASE x[1] # "patent" -> {} [] x[2] \in {1, 4} -> {"c1"} [] OTHER -> {"c2"}]
MCNoDomain == [x \in MCRows |-> "none"]
MCDomainOf == [x \in MCRows |-> IF x[1] = "patent" THEN "G06T" ELSE "none"]

Rows2(a, b) == [t \in Tables |-> CASE t = "company" -> a [] t = "patent" -> b [] OTHER -> 0]
Rows3(a, b, c) == [t \in Tables |->
  CASE t = "company" -> a [] t = "talent" -> b [] t = "patent" -> c [] OTHER -> 0]

\* celery: one run after the other, each in its own worker process.
CeleryTables == <<"news", "company", "patent">>
CeleryRows == Rows2(2, 2)
CeleryBad == {<<"company", 3>>}
Apart == [r \in Runs |-> r]

\* backend: runs overlap in the one API process.
BackendTables == <<"company", "talent", "patent">>
BackendRows == Rows3(2, 1, 1)
Together == [r \in Runs |-> "api"]

\* workers: two celery processes over the same rows.
WorkerTables == <<"company", "patent">>
WorkerRows == Rows2(3, 4)

NoRows == {}
=============================================================================
