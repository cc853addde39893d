--------------------------- MODULE MCFilterEngine ---------------------------
(* Small commands and rules for FilterEngine: every way of writing the     *)
(* program p, every way of nesting it up to one level too deep.            *)
EXTENDS FilterEngine, SequencesExt

Text(prefix, program, plain, arg) ==
    [prefix |-> prefix, program |-> program, plain |-> plain, arg |-> arg]

Segment(text, redirect, inner) ==
    [text |-> text, redirect |-> redirect, inner |-> inner, handed |-> {}]

Simple(text) == Segment(text, FALSE, <<>>)
One(segment) == Chain(<<segment>>)

Written(word, form) == [word |-> word, form |-> form]
Sudo == Written("sudo", "bare")
Env == Written("env", "bare")

PrefixLists ==
    {<<>>, <<Sudo>>, <<Env>>, <<Written("A=1", "bare")>>, <<Sudo, Env>>,
     <<Written("sudo", "options")>>, <<Written("xargs", "value")>>, <<Written("sudo", "path")>>,
     <<Env, Written("sudo", "path")>>, <<Written("sudo", "value"), Env>>}

Texts ==
    {Text(prefix, "p", TRUE, Inside) : prefix \in PrefixLists}
        \cup {Text(prefix, program, TRUE, Inside) :
                 prefix \in {<<>>, <<Sudo>>, <<Env>>, <<Sudo, Env>>}, program \in {"q", "b"}}
        \cup {Text(<<>>, "p", FALSE, Inside), Text(<<Sudo>>, "p", FALSE, Inside)}
        \cup {Text(<<>>, "p", TRUE, arg) : arg \in {Escaping, Returning}}

P == Simple(Text(<<>>, "p", TRUE, Inside))
Q == Simple(Text(<<>>, "q", TRUE, Inside))
HiddenP == Simple(Text(<<Env>>, "p", TRUE, Escaping))

(* A command in place of an argument of q; q running p, as a shell does    *)
(* with code; and p as the code of a shell at the start, alone or with a   *)
(* link after it.                                                          *)
Sub(c) == One(Segment(Q.text, FALSE, <<c>>))
Running(c) == [Q EXCEPT !.handed = {c}]
First(c) == Code(c, {})

MCCommands ==
    {Nothing, Opaque}
        \cup {One(Simple(t)) : t \in Texts}
        \cup {One(Segment(P.text, TRUE, <<>>)), Chain(<<P, Q>>), Chain(<<Q, HiddenP>>)}
        \cup {First(One(P)), First(Opaque), First(First(One(P)))}
        \cup {Code(One(Q), {One(P)}), Chain(<<P, Running(One(P))>>), Sub(One(Running(One(P))))}
        \cup {Sub(One(s)) : s \in {P, Q, HiddenP}}
        \cup {Sub(First(One(P))), First(Sub(One(P))), Sub(Sub(One(P))), Sub(Sub(Sub(One(P)))),
              Sub(Opaque), Chain(<<P, Segment(Q.text, TRUE, <<One(P), One(HiddenP)>>)>>)}

(* The length of the text matters before anything else.                    *)
MCProposals ==
    [command : MCCommands, size : {"short"}]
        \cup [command : {Nothing, One(P), Sub(One(HiddenP))}, size : {"wide", "long"}]

Rule(word, path, action, scope, valid) ==
    [word |-> word, path |-> path, action |-> action, scope |-> scope, valid |-> valid]

HiddenInside(c) ==
    CASE c.kind = "code" -> c.beside
      [] c.kind = "chain" -> UNION {c.segments[i].handed : i \in DOMAIN c.segments}
      [] OTHER -> {}

RECURSIVE PartsOf(_)
PartsOf(c) == {c} \cup UNION {PartsOf(d) : d \in SeenInside(c) \cup HiddenInside(c)}
MCParts == UNION {PartsOf(c) : c \in MCCommands}

MCRules ==
    {Rule("p", FALSE, "deny", "global", TRUE), Rule("p", TRUE, "deny", "here", TRUE),
     Rule("q", FALSE, "confirm", "global", TRUE), Rule("p", FALSE, "allow", "here", TRUE),
     Rule("p", TRUE, "allow", "global", TRUE), Rule("q", FALSE, "allow", "global", TRUE),
     Rule("b", FALSE, "allow", "global", TRUE), Rule("env", FALSE, "allow", "global", TRUE),
     Rule("p", FALSE, "deny", "elsewhere", TRUE), Rule("q", FALSE, "allow", "global", FALSE)}

MCBlacklist == {"b"}

(* CombineAll is what folding combine gives, in whatever order: on all     *)
(* decisions there are, and three of them say it of any number.            *)
ASSUME FoldsAlike ==
    \A a, b, c \in FilterDecisions :
        FoldLeft(Combine, AutoExecute, <<a, b, c>>) = CombineAll({a, b, c})
=============================================================================
