---------------------------------- MODULE Config ----------------------------------
(***************************************************************************)
(* How a worker's configuration is put together (config.py): each layer is *)
(* made a dictionary, with one inside it for each nested config class, and *)
(* the dictionaries are combined.                                          *)
(*                                                                         *)
(* A name is the sequence of its words, "amqp_url" being <<"amqp", "url">>, *)
(* and so is the key of an environment variable or a command line option,  *)
(* whose separators and case are all that the code has to convert.  A      *)
(* dictionary is a function on names; the config classes of the repository *)
(* are nested once.                                                        *)
(***************************************************************************)
EXTENDS Integers, Sequences

CONSTANTS Fields,      \* of the config class, nested ones included: [section, name],
                       \* where the section of the outer class is << >>
          Default,     \* of each field
          Values,      \* what a field is given
          Null         \* None in Python: YAML's null, or an option that was not given

Top == << >>
Empty == << >>
Sections == {f.section : f \in Fields} \ {Top}
FieldsOf(section) == {f \in Fields : f.section = section}

ASSUME ConfigAssumption ==
  /\ \A f \in Fields : f = [section |-> f.section, name |-> f.name]
  /\ \A f \in FieldsOf(Top) : f.name \notin Sections
  /\ Default \in [Fields -> Values \cup {Null}]
  /\ Null \notin Values

\* dict.get
Get(d, key, default) == IF key \in DOMAIN d THEN d[key] ELSE default

\* walk_config_class, of what is found for each field: every nested class has its
\* dictionary, "even if it's empty"; a field that nothing is found for is left out.
WalkConfigClass(found) ==
  LET Found(section) == {f \in FieldsOf(section) : found[f] # Null}
      Walk(section) == [n \in {f.name : f \in Found(section)} |->
                          found[[section |-> section, name |-> n]]]
      outer == Walk(Top)
  IN  [n \in DOMAIN outer \cup Sections |-> IF n \in Sections THEN Walk(n) ELSE outer[n]]

\* _create_env_var_key, _create_cli_key
Key(prefix, f) == prefix \o f.section \o f.name

LoadConfigFromEnvironment(environment, prefix) ==
  WalkConfigClass([f \in Fields |-> Get(environment, Key(prefix, f), Null)])

LoadConfigFromCli(options) ==
  WalkConfigClass([f \in Fields |-> Get(options, Key(Top, f), Null)])

\* One level of _combine_nested_dictionaries.
Overlay(result, d) ==
  [n \in DOMAIN result \cup DOMAIN d |-> Get(d, n, Get(result, n, Null))]

\* Fault: a nested dictionary replaces the one before.
CombineShallow(result, d) == Overlay(result, d)

\* _combine_nested_dictionaries of what was combined before and the next.
Combine(result, d) ==
  [n \in DOMAIN result \cup DOMAIN d |->
     IF n \in Sections \cap DOMAIN d THEN Overlay(Get(result, n, Empty), d[n])
     ELSE Get(d, n, Get(result, n, Null))]

\* The file's dictionary has no .items(), or that of a section has none: an empty
\* file, or one with an empty section.
CannotCombine(file) ==
  \/ file = Null
  \/ file # Null /\ \E n \in Sections : Get(file, n, Empty) = Null

\* structure: what is not given has its default.
Structured(d) ==
  [f \in Fields |-> Get(IF f.section = Top THEN d ELSE Get(d, f.section, Empty),
                        f.name, Default[f])]

\* load_config
LoadConfig(file, environment, prefix, options) ==
  LET fromFile == Combine(Empty, file)
      fromBoth == Combine(fromFile, LoadConfigFromEnvironment(environment, prefix))
  IN  Structured(Combine(fromBoth, LoadConfigFromCli(options)))
===============================================================================
