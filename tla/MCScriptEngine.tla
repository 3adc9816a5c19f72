--------------------------- MODULE MCScriptEngine ---------------------------
(* ScriptEngine with two modules that may require each other and one whose *)
(* file is missing, in a stack that has room for two nested requires.      *)
EXTENDS ScriptEngine

CONSTANTS a, b, c, t1, t2

NamesDef == <<"require", "findObject", "processEvent", "spawnPickup", "playSound">>

CallsDef ==
  {<<"spawnPickup", <<"object", "vector">>>>,
   <<"playSound", <<"object", "vector", "number">>>>,
   <<"findObject", <<"string", "boolean">>>>,
   <<"spawnPickup", <<"null">>>>,
   <<"processEvent", <<"null", "object">>>>}

=============================================================================
