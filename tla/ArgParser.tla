------------------------------ MODULE ArgParser -----------------------------
(***************************************************************************)
(* ArgParser (src/ArgParser.cpp) and the callbacks main gives it           *)
(* (src/main.cpp): the tokens of the command line from left to right.  An  *)
(* option takes the token after it for its value, whatever that looks      *)
(* like.  The callbacks know every option and flag, so they never refuse.  *)
(* A token is a word with the dashes before it, of which toKey takes away  *)
(* two or one; whether one or two does not matter, nor whether the word is *)
(* the short name or the long one.                                         *)
(***************************************************************************)
EXTENDS Naturals, Sequences

CONSTANTS Word,      \* the words to consider, without their dashes
          Empty,     \* nullopt, and the value of a setting that was not given
          Option,    \* the long names of the options, which take a value
          Flag,      \* the long names of the flags, which do not
          Short,     \* the short name of each
          MaxArgs    \* bound: tokens on the command line

ASSUME ArgAssumption ==
    /\ Option \cap Flag = {} /\ Empty \notin Option \cup Flag
    /\ \A o, p \in Option \cup Flag : o # p => {o, Short[o]} \cap {p, Short[p]} = {}
    /\ MaxArgs \in Nat

VARIABLES argv,           \* the command line, without the program's name
          parsed,         \* the tokens that were looked at
          currentOption,  \* the option that waits for its value, by its long name, or Empty
          settings,       \* the value each option has got last, or Empty
          flags,          \* the flags that were met
          result          \* what parse returns, "parsing" until then

argVars == <<argv, parsed, currentOption, settings, flags, result>>

Token == [dashes : 0..2, word : Word]

Args == UNION {[1..n -> Token] : n \in 0..MaxArgs}

(* An option waits only while it is one; values are tokens. *)
ArgTypeOK ==
    /\ argv \in Args /\ parsed \in 0 .. Len(argv)
    /\ currentOption \in Option \cup {Empty}
    /\ settings \in [Option -> Token \cup {Empty}]
    /\ flags \subseteq Flag
    /\ result \in {"parsing", "true", "false"}

ArgInit ==
    /\ argv \in Args
    /\ parsed = 0
    /\ currentOption = Empty
    /\ settings = [o \in Option |-> Empty]
    /\ flags = {}
    /\ result = "parsing"
-----------------------------------------------------------------------------
toKey(prefixedKey) == IF prefixedKey.dashes = 0 THEN Empty ELSE prefixedKey.word

\* No name is of two options or flags.
shortToLongMap ==
    [name \in UNION {{o, Short[o]} : o \in Option \cup Flag} |->
        CHOOSE o \in Option \cup Flag : name \in {o, Short[o]}]

\* the option or flag each token names, or Empty
Key == [token \in Token |-> IF toKey(token) \in DOMAIN shortToLongMap
                           THEN shortToLongMap[toKey(token)] ELSE Empty]

\* the token that is looked at
Current == argv[parsed + 1]

Look ==
    /\ result = "parsing" /\ parsed < Len(argv)
    /\ parsed' = parsed + 1
    /\ UNCHANGED argv

OnFlag ==
    /\ Look
    /\ currentOption = Empty /\ Key[Current] \in Flag
    /\ flags' = flags \cup {Key[Current]}
    /\ UNCHANGED <<currentOption, settings, result>>

BeginOption ==
    /\ Look
    /\ currentOption = Empty /\ Key[Current] \in Option
    /\ currentOption' = Key[Current]
    /\ UNCHANGED <<settings, flags, result>>

\* Mutated form: a token that is a key is not taken for a value.
OnOptionValueOnly ==
    /\ Look
    /\ currentOption # Empty
    /\ settings' = IF Key[Current] = Empty THEN [settings EXCEPT ![currentOption] = Current]
                                        ELSE settings
    /\ currentOption' = Empty
    /\ UNCHANGED <<flags, result>>

OnOption ==
    /\ Look
    /\ currentOption # Empty
    /\ settings' = [settings EXCEPT ![currentOption] = Current]
    /\ currentOption' = Empty
    /\ UNCHANGED <<flags, result>>

Unrecognized ==
    /\ Look
    /\ currentOption = Empty /\ Key[Current] \notin Option \cup Flag
    /\ result' = "false"
    /\ UNCHANGED <<currentOption, settings, flags>>

\* the end of the command line; a value may be missing
Finish ==
    /\ result = "parsing" /\ parsed = Len(argv)
    /\ result' = IF currentOption = Empty THEN "true" ELSE "false"
    /\ UNCHANGED <<argv, parsed, currentOption, settings, flags>>

ArgNext == OnFlag \/ BeginOption \/ OnOption \/ Unrecognized \/ Finish

ArgSpec == ArgInit /\ [][ArgNext]_argVars
-----------------------------------------------------------------------------
(***************************************************************************)
(* A reading of the command line: the tokens at the positions opts are     *)
(* options, the token after each of them is its value, and all the others  *)
(* are flags.  The usage text has fewer: one dash, short names, each once. *)
(***************************************************************************)
Reading(opts) ==
    \A p \in DOMAIN argv :
        IF p \in opts THEN Key[argv[p]] \in Option /\ p + 1 \in DOMAIN argv \ opts
        ELSE p - 1 \in opts \/ Key[argv[p]] \in Flag

\* the value option o has in that reading: the last one counts
ValueIn(opts, o) ==
    IF \E p \in opts : Key[argv[p]] = o
    THEN argv[1 + CHOOSE p \in opts :
                    Key[argv[p]] = o /\ \A q \in opts : Key[argv[q]] = o => q <= p]
    ELSE Empty

(***************************************************************************)
(* A command line is accepted if and only if it can be read that way, and  *)
(* then the program has the values and flags of that reading, of an option *)
(* given twice the last value: no option ever swallows what another one    *)
(* needs, also when a value looks like an option or a flag.                *)
(***************************************************************************)
AcceptsGrammar ==
    LET readings == {opts \in SUBSET DOMAIN argv : Reading(opts)}
    IN  /\ result = "false" => readings = {}
        /\ result = "true" =>
             \E opts \in readings :
                /\ settings = [o \in Option |-> ValueIn(opts, o)]
                /\ flags = {Key[argv[p]] :
                             p \in {q \in DOMAIN argv : q \notin opts /\ q - 1 \notin opts}}
=============================================================================
