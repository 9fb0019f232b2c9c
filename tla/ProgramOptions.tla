--------------------------- MODULE ProgramOptions ----------------------------
(***************************************************************************)
(* crossbow::program_options::parse (crossbow/program_options.hpp): one   *)
(* step per turn of its `for (i = 1; i < argc; ++i)` loop, with            *)
(* options<...>::parse_long, parse_short and parse_impl folded into the    *)
(* turn that calls them.                                                   *)
(*                                                                         *)
(* An option is the record an option<Name, T, Opts...> stands for: its    *)
(* short name, long name, whether T is bool, and its tags Opts as a        *)
(* sequence; the type printer only matters to print_help.  The options<>   *)
(* is the sequence OptionList, in declaration order.                       *)
(*                                                                         *)
(* An argument is a sequence of characters; an option's long name is one   *)
(* symbol, and the inputs only put such a symbol after "--", where the     *)
(* code never looks at its individual characters.  CharAt gives str[k]:    *)
(* the terminating '\0' at k = Len, and "beyond" past it, a read outside   *)
(* the string.                                                             *)
(***************************************************************************)
EXTENDS Naturals, Sequences, SequencesExt

CONSTANTS
    OptionList,  \* sequence of [name, long, isBool, tags]
    Argvs        \* the argument vectors argv[1..argc-1] to parse

Options == Range(OptionList)

NUL == "\\0"
Spaces == {" "}

\* options::is_unique, a static_assert of the options<> type: no two
\* options share a short name.
UniqueNames ==
    \A o1, o2 \in Options : o1.name = o2.name => o1 = o2

ASSUME UniqueNames

\* The tags of option<...> (namespace tag): a kind and its value.
TagKind == {"ShowOption", "IgnoreShort", "IgnoreLong", "Description"}

\* Mutant: the tag nearest the end of the list wins.
TagValue_LastWins(tags, kind, dflt) ==
    LET at == {k \in DOMAIN tags : tags[k].kind = kind}
    IN IF at = {} THEN dflt ELSE tags[Max(at)].v

\* o_options<Head, Tail...>: the flag of a kind is that of the first tag
\* of the kind, std::conditional picking Head over base; o_options<> gives
\* the default.  desc_impl picks the first description the same way.
RECURSIVE TagValue(_, _, _)
TagValue(tags, kind, dflt) ==
    IF tags = <<>> THEN dflt
    ELSE IF Head(tags).kind = kind THEN Head(tags).v
    ELSE TagValue(Tail(tags), kind, dflt)

IgnoreShort(o) == TagValue(o.tags, "IgnoreShort", FALSE)
IgnoreLong(o) == TagValue(o.tags, "IgnoreLong", FALSE)

\* The factories: value<Name>(longopt, val), value<Name>(val) with
\* ignore_long<true> put before the caller's tags, toggle<Name>() likewise,
\* and toggle<Name>(longopt[, val]), whose T is bool.
Value(n, long, tags) == [name |-> n, long |-> long, isBool |-> FALSE, tags |-> tags]
IgnoreLongTag == [kind |-> "IgnoreLong", v |-> TRUE]
ValueShort(n, tags) ==
    [name |-> n, long |-> <<>>, isBool |-> FALSE, tags |-> <<IgnoreLongTag>> \o tags]
Toggle(n, tags) ==
    [name |-> n, long |-> <<>>, isBool |-> TRUE, tags |-> <<IgnoreLongTag>> \o tags]
ToggleLong(n, long, tags) == [name |-> n, long |-> long, isBool |-> TRUE, tags |-> tags]

\* option's static_assert(!(ignore_long && ignore_short)).
ASSUME \A o \in Options : ~(IgnoreShort(o) /\ IgnoreLong(o))

CharAt(s, k) == IF k < Len(s) THEN s[k + 1] ELSE IF k = Len(s) THEN NUL ELSE "beyond"

Outcome == {"running", "returned", "argument_not_found", "parse_error",
            "inexpected_value", "undefined"}

VARIABLES
    argv,   \* argv[1..argc-1]; argv[0], the program name, is never read
    i,      \* the loop index
    vals,   \* each option: [set: whether it was set, v: the argument it
            \* was set from, <<>> for a bool]
    out,    \* how parse ended
    oob     \* a read went past the end of argv or of a string

vars == <<argv, i, vals, out, oob>>

Unset == [o \in Options |-> [set |-> FALSE, v |-> <<>>]]

Argc == Len(argv) + 1
Arg(k) == argv[k]

TypeOK ==
    /\ argv \in Argvs
    /\ i \in 1..Argc
    /\ vals \in [Options -> [set : BOOLEAN, v : UNION {Range(a) : a \in Argvs} \cup {<<>>}]]
    /\ out \in Outcome
    /\ oob \in BOOLEAN

Init ==
    /\ argv \in Argvs
    /\ i = 1
    /\ vals = Unset
    /\ out = "running"
    /\ oob = FALSE

-----------------------------------------------------------------------------

\* option::set_value: the option's value, and through value_ptr the
\* caller's variable, become x.
SetValue(o, x) == [vals EXCEPT ![o] = [set |-> TRUE, v |-> x]]

\* Mutant: parse_impl that reads args[i + 1] without advancing i.
ParseImpl_NoSkip(o, bad) ==
    IF o.isBool
    THEN /\ vals' = SetValue(o, <<>>)
         /\ i' = i + 1
         /\ oob' = (oob \/ bad)
         /\ UNCHANGED out
    ELSE IF i + 1 < Argc
         THEN /\ vals' = SetValue(o, Arg(i + 1))
              /\ i' = i + 1
              /\ oob' = (oob \/ bad)
              /\ UNCHANGED out
         ELSE /\ out' = "undefined"
              /\ oob' = TRUE
              /\ UNCHANGED <<i, vals>>

\* Mutant: the non-bool overload chosen for a bool option, as for an
\* option whose value type is bool* rather than bool.
ParseImpl_BoolTakesValue(o, bad) ==
    /\ vals' = SetValue(o, <<>>)
    /\ i' = i + 2
    /\ oob' = (oob \/ bad)
    /\ UNCHANGED out

\* parse_impl, followed by the loop's `++i`: a bool option is set to true;
\* any other reads args[++i] into parser<T>, and at i = argc - 1 that is
\* argv[argc], a null pointer.  bad: the caller already read outside a
\* string.
ParseImpl(o, bad) ==
    IF o.isBool
    THEN /\ vals' = SetValue(o, <<>>)
         /\ i' = i + 1
         /\ oob' = (oob \/ bad)
         /\ UNCHANGED out
    ELSE IF i + 1 < Argc
         THEN /\ vals' = SetValue(o, Arg(i + 1))
              /\ i' = i + 2
              /\ oob' = (oob \/ bad)
              /\ UNCHANGED out
         ELSE /\ out' = "undefined"
              /\ oob' = TRUE
              /\ UNCHANGED <<i, vals>>

\* Mutant: an unknown option is skipped instead of thrown.
NotFound_Skip(bad) ==
    /\ i' = i + 1
    /\ oob' = (oob \/ bad)
    /\ UNCHANGED <<out, vals>>

\* options<> at the end of the chain: throw argument_not_found.
NotFound(bad) ==
    /\ out' = "argument_not_found"
    /\ oob' = (oob \/ bad)
    /\ UNCHANGED <<i, vals>>

\* parse_long: skip the leading '-'s and find the option whose long name,
\* unless ignored, is the rest.
ParseLong ==
    LET rest == SelectSeq(Arg(i), LAMBDA c : c # "-")
        hits == {o \in Options : ~IgnoreLong(o) /\ o.long = rest}
    IN IF hits = {} THEN NotFound(FALSE) ELSE ParseImpl(CHOOSE o \in hits : TRUE, FALSE)

\* parse_short: the option of that name, unless its short form is ignored.
ParseShort(n, bad) ==
    LET hits == {o \in Options : o.name = n /\ ~IgnoreShort(o)}
    IN IF hits = {} THEN NotFound(bad) ELSE ParseImpl(CHOOSE o \in hits : TRUE, bad)

\* The loop has run out of arguments: `return i`.
Exhausted ==
    /\ out = "running" /\ i >= Argc
    /\ out' = "returned"
    /\ UNCHANGED <<argv, i, vals, oob>>

\* "--" followed by a space or the end: `return i + 1`.
EndOfOptions ==
    LET s == Arg(i) IN
    /\ out = "running" /\ i < Argc
    /\ CharAt(s, 0) = "-" /\ CharAt(s, 1) = "-" /\ CharAt(s, 2) \in Spaces \cup {NUL}
    /\ i' = i + 1
    /\ out' = "returned"
    /\ UNCHANGED <<argv, vals, oob>>

\* Any other "--...": a long option.
LongOption ==
    LET s == Arg(i) IN
    /\ out = "running" /\ i < Argc
    /\ CharAt(s, 0) = "-" /\ CharAt(s, 1) = "-" /\ CharAt(s, 2) \notin Spaces \cup {NUL}
    /\ ParseLong
    /\ UNCHANGED argv

\* "-x": `if (str[2] != '\0') throw parse_error(...)`, else a short option.
\* For "-" alone str[2] lies past the terminator: whatever byte is there
\* decides the branch.
ShortOption ==
    LET s == Arg(i)
        c2 == CharAt(s, 2)
        bad == c2 = "beyond"
    IN /\ out = "running" /\ i < Argc
       /\ CharAt(s, 0) = "-" /\ CharAt(s, 1) # "-"
       /\ \E c \in IF bad THEN {NUL, "junk"} ELSE {c2} :
             IF c # NUL
             THEN /\ out' = "parse_error"
                  /\ oob' = (oob \/ bad)
                  /\ UNCHANGED <<i, vals>>
             ELSE ParseShort(CharAt(s, 1), bad)
       /\ UNCHANGED argv

\* A positional argument: the rest must not hold an option before a
\* plain "--"; `return i` either way.
Positional ==
    LET s == Arg(i)
        dashed(j) == CharAt(Arg(j), 0) = "-"
        marker(j) == dashed(j) /\ CharAt(Arg(j), 1) = "-" /\ CharAt(Arg(j), 2) = NUL
        markers == {j \in i..(Argc - 1) : marker(j)}
        stop == IF markers = {} THEN Argc ELSE Min(markers)
    IN /\ out = "running" /\ i < Argc
       /\ CharAt(s, 0) # "-"
       /\ out' = IF \E j \in i..(stop - 1) : dashed(j) THEN "inexpected_value" ELSE "returned"
       /\ UNCHANGED <<argv, i, vals, oob>>

Next == Exhausted \/ EndOfOptions \/ LongOption \/ ShortOption \/ Positional

Spec == Init /\ [][Next]_vars

-----------------------------------------------------------------------------
(***************************************************************************)
(* Reference: the command line parse accepts.  Its options come first,    *)
(* each as `-n` or `--long` (dashes, then the long name), followed by its  *)
(* value unless it is a bool; they end at the first positional argument,   *)
(* after a "--", or at the end of argv.                                    *)
(***************************************************************************)

\* An option's flag of a kind: the value of its first tag of that kind.
Flag(o, kind) ==
    LET at == {k \in DOMAIN o.tags : o.tags[k].kind = kind}
    IN at # {} /\ o.tags[Min(at)].v

Names(t, o) ==
    \/ ~Flag(o, "IgnoreShort") /\ t = <<"-", o.name>>
    \/ /\ ~Flag(o, "IgnoreLong")
       /\ \E k \in 2..Len(t) :
            /\ \A m \in 1..k : t[m] = "-"
            /\ SubSeq(t, k + 1, Len(t)) = o.long

\* The option values that reading argv[from..to-1] as options can give,
\* starting from v; empty if it cannot be read so.
RECURSIVE Settings(_, _, _, _)
Settings(a, from, to, v) ==
    IF from = to THEN {v}
    ELSE UNION {IF o.isBool
                THEN Settings(a, from + 1, to, [v EXCEPT ![o] = [set |-> TRUE, v |-> <<>>]])
                ELSE IF from + 1 < to
                     THEN Settings(a, from + 2, to, [v EXCEPT ![o] = [set |-> TRUE, v |-> a[from + 1]]])
                     ELSE {}
                : o \in {o \in Options : Names(a[from], o)}}

\* When parse returns normally, the options it set and the index it
\* returns are those of the reference reading: the options up to the
\* end, up to the first positional argument, or up to a "--" just before
\* the returned index.
ReturnsAsSpecified ==
    out = "returned" =>
        \/ i = Argc /\ vals \in Settings(argv, 1, Argc, Unset)
        \/ /\ i < Argc /\ CharAt(Arg(i), 0) # "-"
           /\ vals \in Settings(argv, 1, i, Unset)
        \/ /\ i > 1 /\ CharAt(Arg(i - 1), 0) = "-" /\ CharAt(Arg(i - 1), 1) = "-"
           /\ vals \in Settings(argv, 1, i - 1, Unset)

\* parse reads past argv or past a string's terminator in two places:
\* str[2] of the argument "-", and args[++i] = argv[argc] for a value
\* option given last.  Neither read lets parse return normally: whatever
\* byte follows "-", parse_error or argument_not_found is thrown, and the
\* null argument goes to parser<T>; the caller never reads options set
\* from such a command line.
OutOfBoundsNeverReturns == oob => out # "returned"

====
