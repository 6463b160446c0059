---------------------------- MODULE MCViewRelease -----------------------------
(* Two runs of the sync script, two fetches that differ in what groups are  *)
(* large, kinds of records that fall together or apart with the columns of  *)
(* a plan; the views stored at first have any of the plans below.           *)
EXTENDS ViewRelease, TLC

CONSTANTS p1, p2, f1, f2

MCSyncs == {p1, p2}
MCFetches == {f1, f2}

(* kinds "a" and "b" differ in their region only *)
MCKinds == {"a", "b"}
MCCell(k, c) == IF c = "region" THEN k ELSE "same"

Volumes(product, operations, voc) ==
    [product |-> [a |-> product[1], b |-> product[2]],
     operations |-> [a |-> operations[1], b |-> operations[2]],
     voc |-> [a |-> voc[1], b |-> voc[2]]]

(* MinGroup is 3: in f1 "b" is too small in each source, not in two of them; *)
(* in f2 only the regions together are large enough                          *)
MCVolume == (f1 :> Volumes(<<4, 2>>, <<3, 2>>, <<3, 1>>)) @@
            (f2 :> Volumes(<<1, 2>>, <<0, 1>>, <<1, 1>>))

Voc(inputs, op, output) == [source |-> "voc", inputs |-> inputs, op |-> op, output |-> output]

PlanOf(items, columns, sources, ttl) ==
    [audience |-> "product", ttl |-> ttl, sources |-> sources, items |-> items,
     columns |-> columns]

(* by region over two sources; one offered as a repair, and one over a       *)
(* column that has no sample, from a source that is selected twice           *)
Region == [source |-> "operations", inputs |-> <<"region">>, op |-> "select", output |-> "region"]
Make == Voc(<<"make">>, "select", "make")
Address == Voc(<<"address">>, "select", "region")
MCPlanned == {PlanOf(<<Region>>, {"region", "case_count"}, <<"product", "operations">>, 7),
              PlanOf(<<Address>>, {"region"}, <<"voc", "operations">>, 8),
              PlanOf(<<Make>>, {"make"}, <<"voc", "voc">>, 7)}

-----------------------------------------------------------------------------
(* Plans of one or two transformations over fields with and without a       *)
(* required operator, the raw texts among them; the second one, if any,     *)
(* complies, renames, misses a column or reads what the first one reads.    *)
Inputs == LET fields == {"address", "ticket_text", "message", "region"}
          IN {<<f>> : f \in fields} \cup {<<f, g>> : f, g \in fields}

Firsts == {Voc(in, op, out) : in \in Inputs, op \in {"select", "classify", "region_group", "drop"},
                              out \in {"issue_type", "region", "feature"}}

Seconds == {Voc(<<"ticket_text">>, "classify", "complaint_theme"),
            Voc(<<"address">>, "region_group", "region"),
            Voc(<<"age">>, "select", "age_band"),
            Voc(<<"customer_name", "message">>, "drop", "feature"),
            [source |-> "operations", inputs |-> <<"status">>, op |-> "select", output |-> "status"]}

MCStored == [audience : {"product", "support"}, ttl : {7, 8}, sources : {<<"voc">>},
             items : {<<x>> : x \in Firsts} \cup (Firsts \X Seconds),
             columns : {{"case_count", "issue_type"}, {"region"}, {"complaint_theme"}, {"age_band"}}]

MCNoStored == {}

MCSymmetry == Permutations(MCSyncs)
=============================================================================
