---------------------------- MODULE ConversionMC ----------------------------
(* A model of Conversion: ids are numbers below ten, so digests collide;  *)
(* the rules are those of rules/default/classification.yaml.               *)
EXTENDS Conversion, TLC

CONSTANTS j1, j2, j3, red, blue

MCJobs == {j1, j2, j3}
MCContents == {red, blue}
MCSymmetry == Permutations(MCJobs)

MCDigest(name, attempt) == (name[2] + attempt + (IF name[1] = None THEN 0 ELSE 1)) % 10

Rule(type, width, children, output) ==
  [type |-> type, minWidth |-> width, minChildren |-> children, output |-> output]
MCRules == <<Rule("TEXT", 0, 0, "TEXT"), Rule("FRAME", 2, 1, "PANEL"), Rule(None, 0, 0, "INLINE")>>

MCRefused == {"../up"}
MCUnwritable == {"long"}
MCWithin == {<<"tip.xml/in", "tip">>}

Leaf(type, keys) ==
  [type |-> type, width |-> 1, children |-> <<>>, resources |-> keys,
   ownReference |-> FALSE, far |-> FALSE, plain |-> TRUE]
Layer(name, width, keys, children) ==
  [name |-> name, type |-> "FRAME", width |-> width, resources |-> keys,
   ownReference |-> FALSE, children |-> children]
Frame(name, width, keys, below) ==
  Layer(name, width, keys, <<Leaf("TEXT", {}), Leaf("RECTANGLE", below)>>)
Text == Leaf("TEXT", {})
Bare(name, children) == Layer(name, 2, {}, children)
Resource(key, content, size) == [key |-> key, content |-> content, size |-> size]

MCSelections == {
  [fingerprint |-> 1, resources |-> <<Resource(1, red, 1), Resource(2, blue, 1)>>,
   roots |-> <<Frame("main", 2, {1}, {2}), Frame("icon", 1, {2}, {})>>],
  [fingerprint |-> 2, resources |-> <<Resource(5, red, 1)>>,
   roots |-> <<Frame("main", 2, {}, {}), Frame("side", 2, {5}, {}), Frame("main", 2, {}, {5})>>],
  [fingerprint |-> 3, resources |-> <<Resource(1, red, 3)>>, roots |-> <<Frame("tip", 1, {1}, {})>>],
  [fingerprint |-> 4, resources |-> <<Resource(1, red, 1)>>, roots |-> <<Frame("tip", 2, {1}, {6})>>],
  [fingerprint |-> 5, resources |-> <<Resource(1, red, 2), Resource(1, blue, 4)>>, roots |-> <<Frame("tip", 1, {1}, {})>>],
  [fingerprint |-> 6, resources |-> <<Resource(1, red, 2)>>,
   roots |-> <<Frame("tip", 2, {1}, {}), Frame("side", 2, {}, {1})>>],
  [fingerprint |-> 7, resources |-> <<>>, roots |-> <<
     Bare("side", <<Text, [Leaf("RECTANGLE", {}) EXCEPT !.far = TRUE]>>), Frame("../up", 2, {}, {})>>],
  [fingerprint |-> 8, resources |-> <<>>, roots |-> <<
     Bare("side", <<[Text EXCEPT !.plain = FALSE], [Text EXCEPT !.far = TRUE]>>)>>],
  [fingerprint |-> 9, resources |-> <<>>, roots |-> <<
     Frame("long", 2, {}, {}), Bare("side", <<[Text EXCEPT !.far = TRUE, !.plain = FALSE]>>)>>],
  [fingerprint |-> 10, resources |-> <<>>, roots |-> <<Frame("tip", 2, {}, {}), Frame("tip.xml/in", 2, {}, {})>>],
  [fingerprint |-> 11, resources |-> <<Resource(1, red, 1)>>, roots |-> <<
     Bare("side", <<[Text EXCEPT !.ownReference = TRUE], Leaf("RECTANGLE", {1})>>)>>]}
=============================================================================
