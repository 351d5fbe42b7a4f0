------------------------------ MODULE MCIngest ------------------------------
EXTENDS Ingest

\* Two trims of one model, another model of the brand, a brand of two words.
MCTrims == {<<"p", "206", "t2">>, <<"p", "206", "t5">>, <<"p", "405">>, <<"g", "g", "x">>}
MCMultiTokenBrands == {<<"g", "g">>}
MCCatchAll == {<<"p", "206", "other">>}
MCBodyFactors == [intact |-> 100, accident |-> 72]
MCEstimated == {"light"}

MCRaw(token, trim, year, price) ==
  [token |-> token, trim |-> trim, year |-> year, price |-> price,
   category |-> "light", city |-> "c1", km |-> NULL, insurance |-> NULL, body |-> NULL,
   source |-> NULL, before |-> FALSE, bad |-> {}]

\* The market: four ads and one whose attributes vary.
MCMarket(row) ==
  << MCRaw(1, <<"p", "206", "t2">>, 1400, 100),
     [MCRaw(2, <<"p", "206", "t2">>, 1400, 120) EXCEPT !.km = 100],
     [MCRaw(3, <<"p", "206", "t5">>, 1401, 140) EXCEPT !.km = 50, !.insurance = 12],
     [MCRaw(4, <<"p", "206", "t2">>, 1402, 90) EXCEPT !.city = "c2", !.body = "accident"],
     row >>

MCAds ==
  {[MCRaw(5, <<"p", "206", "t2">>, 1400, price) EXCEPT !.source = source, !.km = 200] :
     price \in {70, 120, 400}, source \in {NULL, "hamrah"}}
  \cup {[MCRaw(5, <<"p", "206", "other">>, 1402, 120) EXCEPT !.body = "intact"]}

\* Small files: moved listings, repeats in and across batches, bad rows.
MCSmall ==
  LET a == MCRaw(1, <<"p", "405">>, 1400, 130)
      moved == [MCRaw(4, <<"g", "g", "x">>, 2021, 90) EXCEPT !.city = "c3", !.before = TRUE]
      cheap == MCRaw(1, <<"p", "206", "t2">>, 1401, 5)
      noTrim == [MCRaw(2, <<>>, NULL, NULL) EXCEPT !.km = 2000]
      single == MCRaw(3, <<"g", "g">>, 1300, 80)
      noCity == [a EXCEPT !.bad = {"city", "fuel"}]
      unknown == [a EXCEPT !.bad = {"source", "city"}]
  IN { <<a>>, <<moved, single>>, <<a, cheap>>, <<a, moved, cheap>>, <<noTrim, single, moved, a>>,
       <<a, noCity>>, <<noCity>>, <<moved, unknown>>, <<>> }

MCFiles == {MCMarket(ad) : ad \in MCAds} \cup MCSmall
=============================================================================
