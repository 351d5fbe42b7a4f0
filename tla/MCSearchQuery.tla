---------------------------- MODULE MCSearchQuery ----------------------------
EXTENDS SearchQuery

\* Places are points of one road, in kilometres.
MCDistance(p, q) == IF p < q THEN q - p ELSE p - q
MCFreshnessDecay(age) == CASE age = 0 -> 1000 [] age = 1 -> 931 [] age = 2 -> 867 [] age > 2 -> 500
MCWordSimilarity(words, others) == (1000 * Cardinality(words \cap others)) \div Cardinality(words)

MCVocabulary == {"p", "206", "t2", "t5", "405", "s", "pride", "zx", "maker"}

MCEntry(brand, model, trim, count) ==
  [category |-> "light", brand |-> {brand}, model |-> {brand, model},
   trim |-> {brand, model} \cup trim, words |-> {brand, model} \cup trim, count |-> count]

MCCatalog == {MCEntry("p", "206", {"t2"}, 3), MCEntry("p", "206", {"t5"}, 1),
              MCEntry("p", "405", {}, 1), MCEntry("s", "pride", {}, 1)}

MCCities == {[name |-> "c1", place |-> 0], [name |-> "c2", place |-> 100],
             [name |-> "c3", place |-> NULL]}

MCRow(model, trim, year, km, price, city) ==
  [category |-> "light", brand |-> {"p"}, model |-> {"p", model}, trim |-> {"p", model} \cup trim,
   year |-> year, km |-> km, price |-> price, suspect |-> FALSE, city |-> city, place |-> NULL,
   gearbox |-> "manual", fuel |-> NULL, color |-> NULL, deal |-> 50, posted |-> 8, diff |-> 0,
   source |-> "divar", priceType |-> NULL, documents |-> NULL, title |-> {"p", model} \cup trim]

\* The prices straddle 100 and its slack (125), one is silent and one suspect.
MCListings ==
  << MCRow("206", {"t2"}, 1400, 60, 100, "c1"),
     [MCRow("206", {"t2"}, 1400, 60, 120, "c2") EXCEPT !.deal = 90, !.diff = -80, !.posted = 9],
     [MCRow("206", {"t5"}, 1398, NULL, 125, "c1") EXCEPT !.deal = 0, !.source = "hamrah"],
     [MCRow("206", {"t5"}, 1398, 30, 126, "c2") EXCEPT !.deal = 20, !.gearbox = "automatic"],
     [MCRow("405", {}, 1396, 95, 99, "c1") EXCEPT !.deal = 70, !.gearbox = NULL, !.place = 40],
     [MCRow("206", {"t2"}, NULL, 90, NULL, "c3") EXCEPT !.deal = NULL, !.priceType = "cash"],
     [MCRow("206", {"t2"}, 1401, 150, 20, "c1") EXCEPT !.suspect = TRUE, !.posted = NULL],
     [MCRow("206", {"t2"}, 1420, 10, 74, "c2") EXCEPT !.documents = "lien", !.diff = -60],
     [MCRow("zx", {}, 1390, 200, 60, "c1") EXCEPT
        !.brand = NULL, !.model = NULL, !.trim = NULL, !.category = "heavy", !.fuel = "diesel"],
     [MCRow("206", {"t5"}, 1398, 60, 120, "c1") EXCEPT !.deal = 0, !.color = "red"],
     [MCRow("206", {"t5"}, 1398, 60, 120, "c1") EXCEPT !.deal = 10] >>

MCWords(words) == [kind |-> "words", words |-> words]
MCLimit(value, thousand, unit) ==
  [kind |-> "limit", value |-> value, thousand |-> thousand, unit |-> unit]

MCQueries ==
  { <<>>,
    << MCWords({"p", "206"}), MCLimit(100, FALSE, "million") >>,
    << MCLimit(60, TRUE, "km"), MCLimit(1, FALSE, NULL), MCWords({"p"}) >>,
    << MCWords({"206", "t2"}), [kind |-> "year", value |-> 0, orNewer |-> FALSE],
       [kind |-> "gearbox", value |-> "manual"] >>,
    << MCWords({"zx"}), [kind |-> "lowMileage"], MCLimit(50, TRUE, NULL), [kind |-> "oneBillion"] >>,
    << [kind |-> "city", name |-> "c1"], [kind |-> "below"],
       [kind |-> "year", value |-> 98, orNewer |-> TRUE] >>,
    << [kind |-> "year", value |-> 1499, orNewer |-> FALSE] >> }

MCMention(brand, model, trim) == [brand |-> brand, model |-> model, trim |-> trim]

\* A made-up brand before the model, two levels at once, every soft criterion.
MCLLMIntents ==
  { [NoIntent EXCEPT !.vehicles = <<MCMention({"maker"}, {"p", "206"}, {})>>, !.priceMin = 98,
                     !.priceMax = 100, !.cities = {"c1"}],
    [NoIntent EXCEPT !.vehicles = <<MCMention({"p"}, {}, {}), MCMention({}, {"405"}, {})>>,
                     !.fuel = "petrol", !.colors = {"red"}, !.text = {"t2"}, !.kmMin = 61] }

MCOverrides ==
  { <<>>, [models |-> <<{"p", "206"}>>], [year |-> 1398, gearbox |-> "manual"],
    [priceMin |-> 101, sort |-> "price"], [priceMax |-> 100, yearMax |-> 1396, category |-> "light"],
    [cities |-> {"c2", "c3"}, onlyBelow |-> TRUE, sort |-> "deal"],
    [kmMax |-> 60, sources |-> {"divar"}, sort |-> "km"],
    [priceTypes |-> {"cash"}, documents |-> {"clear"}, yearMin |-> 1396, sort |-> "newest"] }
=============================================================================
