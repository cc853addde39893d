---------------------------- MODULE FilterEngine ----------------------------
(* The filter engine of core (filter/engine.rs, parser.rs, pattern.rs,     *)
(* blacklist.rs) on top of the rule store (policy_store.rs,                *)
(* filter_rules.rs), and the part of the risk classifier that decides      *)
(* which texts it looks at (risk/classifier.rs).                           *)
(*                                                                         *)
(* A command is what the parser makes of its text: a chain of segments,    *)
(* code behind a `bash -c` or the like at its start, a text that cannot be *)
(* taken apart, or nothing.  A segment is the words it starts with -       *)
(* elevation, wrappers and assignments in front of a program - with a      *)
(* redirection or not, the commands in its substitutions, and those its    *)
(* program is handed to run.                                               *)
EXTENDS Naturals, Sequences, FiniteSets

CONSTANTS
    Parts,       \* the commands that are taken apart, and all that is inside them
    Proposals,   \* what is proposed: a command, and how long its text is
    Rules,       \* what the user may store
    Blacklist,   \* programs of the hard blacklist
    MaxDepth,    \* MAX_SUBSTITUTION_DEPTH
    MaxNesting,  \* bound: levels of a command the properties speak of
    MaxRules,    \* bound: rules stored at a time
    NoTrace

VARIABLES
    stored,      \* the rows of filter_rules
    trace        \* the evaluation a caller acts on: command, size, rules read, decision

storeVars == <<stored, trace>>

-----------------------------------------------------------------------------
(* Decisions.                                                              *)

AutoExecute == [verdict |-> "auto", code |-> "none"]
Confirm(code) == [verdict |-> "confirm", code |-> code]
Deny(code) == [verdict |-> "deny", code |-> code]

Codes == {"none", "blacklist", "too deep", "rule deny", "rule confirm", "substitution",
          "redirection", "too long", "ambiguous", "no rule", "empty"}
FilterDecisions == [verdict : {"auto", "confirm", "deny"}, code : Codes]

Severity(decision) ==
    CASE decision.verdict = "auto" -> 0
      [] decision.verdict = "confirm" -> 1
      [] decision.verdict = "deny" -> 2

CodePriority(code) ==
    CASE code = "blacklist" -> 0 [] code = "too deep" -> 1 [] code = "rule deny" -> 2
      [] code = "rule confirm" -> 3 [] code = "substitution" -> 4
      [] code = "redirection" -> 5 [] code = "too long" -> 6 [] code = "ambiguous" -> 7
      [] code = "no rule" -> 8 [] code = "empty" -> 9 [] OTHER -> 255

MergeCodes(a, b) == IF CodePriority(a) <= CodePriority(b) THEN a ELSE b

Combine(a, b) ==
    IF Severity(a) > Severity(b) THEN a
    ELSE IF Severity(a) < Severity(b) THEN b
    ELSE [a EXCEPT !.code = MergeCodes(a.code, b.code)]

(* The fold of combine over a set of decisions, from AutoExecute on: combine is   *)
(* associative, commutative and idempotent.                                *)
CombineAll(decisions) ==
    LET all == decisions \cup {AutoExecute}
    IN  CHOOSE a \in all : \A b \in all : Combine(a, b) = a

-----------------------------------------------------------------------------
(* Commands.  `text.prefix` holds the words before the program, `plain`    *)
(* says that the program is written by its bare name, neither quoted nor   *)
(* with a path, and `arg` how its argument lies to the directory of        *)
(* path-shaped patterns: as written and normalised.                        *)
(* The parser knows code for a shell only at the start of the text.  It    *)
(* takes the word behind `-c` for the code and looks at nothing else then: *)
(* `beside` are further links and substitutions.  `handed` is what a       *)
(* program runs that the parser takes for its arguments, such as code for  *)
(* a shell in a later link.                                                *)

Nothing == [kind |-> "nothing"]
Opaque == [kind |-> "opaque"]
Code(c, beside) == [kind |-> "code", inner |-> c, beside |-> beside]
Chain(segments) == [kind |-> "chain", segments |-> segments]

(* The filter counts characters, the classifier bytes: a wide text is      *)
(* within the limit of the one and beyond that of the other.               *)
Sizes == {"short", "wide", "long"}

Inside == [written |-> TRUE, normal |-> TRUE]
Escaping == [written |-> TRUE, normal |-> FALSE]
Returning == [written |-> FALSE, normal |-> TRUE]

(* An elevation, a wrapper or an assignment, by how it is written: alone;  *)
(* with options the parser skips (sudo -u x); with one whose value it does *)
(* not know of (xargs -n 1); or by a path or in quotes.  A "rest" is what  *)
(* is left in front when such a word has been removed.                     *)
Word == [word : STRING, form : {"bare", "options", "value", "path", "rest"}]

Literal == [prefix : Seq(Word), program : STRING, plain : BOOLEAN,
            arg : [written : BOOLEAN, normal : BOOLEAN]]

(* What the parser gives: a segment holds commands, and code a command.    *)
ASSUME FilterAssumption ==
    /\ Proposals \subseteq [command : Parts, size : Sizes]
    /\ \A c \in Parts :
        \/ c.kind \in {"nothing", "opaque"}
        \/ c.kind = "code" /\ c.inner \in Parts /\ c.beside \subseteq Parts
        \/ /\ c.kind = "chain"
           /\ \A i \in DOMAIN c.segments :
                /\ c.segments[i].text \in Literal
                /\ c.segments[i].redirect \in BOOLEAN
                /\ c.segments[i].inner \in Seq(Parts)
                /\ c.segments[i].handed \subseteq Parts
    /\ \A r \in Rules : r.action \in {"deny", "confirm", "allow"} /\ r.word # "disguised"
    /\ MaxDepth \in Nat /\ MaxNesting \in Nat

(* A pattern `w *` and the anchored patterns of the blacklist compare the  *)
(* first word; the words of a text by their number, the program last.      *)
WordAt(text, i) ==
    IF i \in DOMAIN text.prefix
    THEN IF text.prefix[i].form \in {"path", "rest"} THEN "disguised" ELSE text.prefix[i].word
    ELSE IF text.plain THEN text.program ELSE "disguised"

FirstWord(text) == WordAt(text, 1)

(* detect_elevation removes the one word sudo, not its options.            *)
Elevated(text) ==
    /\ text.prefix # <<>>
    /\ text.prefix[1].word = "sudo" /\ text.prefix[1].form \in {"bare", "options", "value"}

Stripped(text) ==
    IF ~Elevated(text) THEN text
    ELSE IF text.prefix[1].form = "bare" THEN [text EXCEPT !.prefix = Tail(@)]
    ELSE [text EXCEPT !.prefix[1].form = "rest"]

(* Where strip_one_elevation_wrapper_or_assignment finds nothing more to   *)
(* remove, or not enough.                                                  *)
Stops(text) == {i \in DOMAIN text.prefix : text.prefix[i].form \notin {"bare", "options"}}
Uncovered(text) == Stops(text) = {}

(* The program alone, by its bare name.                                    *)
Bare(text) == [text EXCEPT !.prefix = <<>>, !.plain = TRUE]

(* resolve_effective_command removes word after word and, when it can do   *)
(* no more, takes path and quotes from the word that is the first then.    *)
Resolved(text) ==
    IF Uncovered(text) THEN Bare(text)
    ELSE LET words == text.prefix
             stop == CHOOSE i \in Stops(text) : \A j \in Stops(text) : i <= j
             left == IF words[stop].form = "path" THEN "bare" ELSE "rest"
         IN  [text EXCEPT !.prefix = <<[words[stop] EXCEPT !.form = left]>>
                                        \o SubSeq(words, stop + 1, Len(words))]

-----------------------------------------------------------------------------
(* Rules.  A rule has a first word, and may be path-shaped.  matches()     *)
(* lets * run over any text; for a path-shaped pattern                     *)
(* matches_for_user_rule() asks an Allow to match the normalised path, and *)
(* lets the others match either.                                           *)

Matches(rule, text) ==
    /\ FirstWord(text) = rule.word
    /\ rule.path => IF rule.action = "allow" THEN text.arg.normal
                    ELSE text.arg.normal \/ text.arg.written

(* Mutant: the program behind a wrapper is not uncovered for user rules.   *)
IsMatchAsWritten(rule, text) == Matches(rule, text) \/ Matches(rule, Stripped(text))

(* Mutant: Allow rules match the uncovered program, too.                   *)
IsMatchAlways(rule, text) ==
    Matches(rule, text) \/ Matches(rule, Stripped(text)) \/ Matches(rule, Resolved(text))

(* The resolved text counts for Deny and Confirm only.                     *)
IsMatch(rule, text) ==
    \/ Matches(rule, text)
    \/ Matches(rule, Stripped(text))
    \/ rule.action # "allow" /\ Matches(rule, Resolved(text))

(* Mutant: an Allow rule comes before a Confirm rule.                      *)
EvaluateRulesAllowFirst(rules, text) ==
    LET hits(action) == {r \in rules : r.action = action /\ IsMatch(r, text)}
    IN  IF hits("deny") # {} THEN Deny("rule deny")
        ELSE IF hits("allow") # {} THEN AutoExecute
        ELSE IF hits("confirm") # {} THEN Confirm("rule confirm")
        ELSE Confirm("no rule")

(* The buckets are looked through in the order Deny, Confirm, Allow.  The  *)
(* order within a bucket only decides which rule is reported.              *)
EvaluateRules(rules, text) ==
    LET hits(action) == {r \in rules : r.action = action /\ IsMatch(r, text)}
    IN  IF hits("deny") # {} THEN Deny("rule deny")
        ELSE IF hits("confirm") # {} THEN Confirm("rule confirm")
        ELSE IF hits("allow") # {} THEN AutoExecute
        ELSE Confirm("no rule")

Blacklisted(text) ==
    \E form \in {text, Stripped(text), Resolved(text)} : FirstWord(form) \in Blacklist

(* evaluate_parsed_explained and evaluate_segment_explained call each      *)
(* other; `below` holds the decisions of all commands one level deeper.    *)
EvaluateSegment(segment, rules, below) ==
    LET some(condition, code) == IF condition THEN {Confirm(code)} ELSE {}
    IN  CombineAll(
            {EvaluateRules(rules, segment.text)}
            \cup {below[segment.inner[i]] : i \in DOMAIN segment.inner}
            \cup some(segment.inner # <<>>, "substitution")
            \cup some(Blacklisted(segment.text), "blacklist")
            \cup some(segment.redirect, "redirection"))

EvaluateParsed(c, rules, below) ==
    CASE c.kind = "nothing" -> Deny("empty")
      [] c.kind = "opaque" -> Confirm("ambiguous")
      [] c.kind = "code" -> Combine(Confirm("ambiguous"), below[c.inner])
      [] c.kind = "chain" ->
           CombineAll({EvaluateSegment(c.segments[i], rules, below) : i \in DOMAIN c.segments})

(* The depth is looked at before anything is taken apart.                  *)
DecisionsAt(rules) ==
    LET at[depth \in 0 .. MaxDepth + 1] ==
            IF depth > MaxDepth THEN [c \in Parts |-> Deny("too deep")]
            ELSE [c \in Parts |-> EvaluateParsed(c, rules, at[depth + 1])]
    IN  at

(* An empty text is denied however long it is.                             *)
Evaluate(c, size, rules) ==
    IF size = "long" /\ c.kind # "nothing" THEN Confirm("too long") ELSE DecisionsAt(rules)[0][c]

-----------------------------------------------------------------------------
InnerTexts(segment, below) == UNION {below[segment.inner[j]] : j \in DOMAIN segment.inner}

(* Mutant: the classifier stops one level above the filter.                *)
SegmentCommandShallow(c, depth, below) ==
    IF c.kind # "chain" THEN {}
    ELSE UNION {{c.segments[i].text}
                \cup IF depth + 1 >= MaxDepth THEN {} ELSE InnerTexts(c.segments[i], below)
                : i \in DOMAIN c.segments}

(* segment_command: every literal, down to the limit.                      *)
SegmentCommand(c, depth, below) ==
    IF c.kind # "chain" THEN {}
    ELSE UNION {{c.segments[i].text}
                \cup IF depth >= MaxDepth THEN {} ELSE InnerTexts(c.segments[i], below)
                : i \in DOMAIN c.segments}

TextsAt[depth \in 0 .. MaxDepth] ==
    [c \in Parts |-> SegmentCommand(c, depth, TextsAt[depth + 1])]

(* The texts classify() compares with the catalogue: every literal, and    *)
(* each once more resolved.                                                *)
ClassifiedTexts(c, size) ==
    IF size # "short" THEN {}
    ELSE LET texts == TextsAt[0][c] IN texts \cup {Resolved(t) : t \in texts}

-----------------------------------------------------------------------------
(* The rule store and the evaluations.                                     *)

(* "global", or the server or tag a rule is for: "here" is the one a       *)
(* command is proposed for.                                                *)
ScopeApplies(rule) == rule.scope \in {"global", "here"}

RulesFor == {r \in stored : ScopeApplies(r)}

StoreInit ==
    /\ stored = {}
    /\ trace = NoTrace

(* A pattern that does not compile is turned down before anything is       *)
(* written.                                                                *)
CreateRule(r) ==
    /\ r.valid
    /\ Cardinality(stored) < MaxRules
    /\ stored' = stored \cup {r}
    /\ UNCHANGED trace

UpdateRule(old, r) ==
    /\ old \in stored
    /\ r.valid
    /\ stored' = (stored \ {old}) \cup {r}
    /\ UNCHANGED trace

DeleteRule(r) ==
    /\ r \in stored
    /\ stored' = stored \ {r}
    /\ UNCHANGED trace

Evaluated(p, rules) ==
    [command |-> p.command, size |-> p.size, rules |-> rules,
     decision |-> Evaluate(p.command, p.size, rules)]

ProposeCommand(p) ==
    /\ trace = NoTrace
    /\ trace' = Evaluated(p, RulesFor)
    /\ UNCHANGED stored

(* The rules cannot be read: the engine goes on without any.               *)
ProposeUnread(p) ==
    /\ trace = NoTrace
    /\ trace' = Evaluated(p, {})
    /\ UNCHANGED stored

(* The caller is through with the command.  Rules may have changed since.  *)
Done ==
    /\ trace # NoTrace
    /\ trace' = NoTrace
    /\ UNCHANGED stored

StoreNext ==
    \/ \E r \in Rules : CreateRule(r) \/ DeleteRule(r)
    \/ \E old, r \in Rules : UpdateRule(old, r)
    \/ \E p \in Proposals : ProposeCommand(p) \/ ProposeUnread(p)
    \/ Done

StoreSpec == StoreInit /\ [][StoreNext]_storeVars

-----------------------------------------------------------------------------
(* What the engine is to see of a command, however it is nested: an        *)
(* account of its own, that the walk through the command is compared with. *)
SeenInside(c) ==
    CASE c.kind = "code" -> {c.inner}
      [] c.kind = "chain" ->
            UNION {{c.segments[i].inner[j] : j \in DOMAIN c.segments[i].inner}
                   : i \in DOMAIN c.segments}
      [] OTHER -> {}

Within[n \in Nat] ==
    IF n = 0 THEN [c \in Parts |-> {}]
    ELSE [c \in Parts |-> {c} \cup UNION {Within[n - 1][d] : d \in SeenInside(c)}]

(* What a shell runs of it.                                                *)
Executed(c) ==
    UNION {{d.segments[i] : i \in DOMAIN d.segments}
           : d \in {p \in Within[MaxNesting][c] : p.kind = "chain"}}

HasCode(c) == \E d \in Within[MaxNesting][c] : d.kind = "code"

(* A rule is about the program of a text and the place of its argument.    *)
Names(r, text) ==
    /\ r.word = text.program
    /\ r.path => text.arg.written \/ text.arg.normal

(* The evaluation belongs to its command and the rules in force for it.    *)
StoreTypeOK ==
    /\ stored \in SUBSET {r \in Rules : r.valid}
    /\ trace # NoTrace =>
        /\ [command |-> trace.command, size |-> trace.size] \in Proposals
        /\ trace.rules \in SUBSET {r \in Rules : r.valid}
        /\ trace.decision.verdict \in {"auto", "confirm", "deny"}

(* A program that a Deny rule names is denied in every link of a chain, in *)
(* every substitution, and in code for a shell the command starts with,    *)
(* and there behind sudo, wrappers and assignments and disguised by a path *)
(* or quotes.  Not behind a wrapper that is itself disguised or has an     *)
(* option the parser does not know the value of; not in code for a shell   *)
(* in another place, or beside such code; and not in a text that is too    *)
(* long or cannot be taken apart, which is asked about.                    *)
DenyReaches ==
    trace # NoTrace /\ trace.size # "long" =>
        \A s \in Executed(trace.command) : \A r \in trace.rules :
            r.action = "deny" /\ Uncovered(s.text) /\ Names(r, s.text)
                => trace.decision.verdict = "deny"

(* What runs without a question was allowed word for word: every link of   *)
(* the chain starts with an allowed word, or with sudo alone and then an   *)
(* allowed word, keeps to the allowed directory after normalisation,       *)
(* writes to no file and substitutes nothing; and the program, if it is    *)
(* not hidden behind what the parser cannot remove, is in no Deny or       *)
(* Confirm rule and not on the blacklist.  What an allowed program is      *)
(* handed to run, a shell's code in a later link too, is not asked about.  *)
AutoIsEarned ==
    trace # NoTrace /\ trace.decision.verdict = "auto" =>
        /\ trace.command.kind = "chain"
        /\ \A s \in Executed(trace.command) :
            /\ s.inner = <<>>
            /\ ~s.redirect
            /\ Uncovered(s.text) =>
                 /\ s.text.program \notin Blacklist
                 /\ \A r \in trace.rules : r.action # "allow" => ~Names(r, s.text)
            /\ \E r \in trace.rules :
                /\ r.action = "allow"
                /\ \/ r.word = WordAt(s.text, 1)
                   \/ /\ WordAt(s.text, 1) = "sudo" /\ s.text.prefix[1].form = "bare"
                      /\ r.word = WordAt(s.text, 2)
                /\ r.path => s.text.arg.normal

(* Another rule never opens what was closed for a reason: a Deny or        *)
(* Confirm rule only tightens, and an Allow rule lifts a question only     *)
(* when its one reason, by the merged code, was that no rule was found.    *)
AllowLiftsOnlyDefault ==
    trace # NoTrace =>
        \A r \in Rules :
            Severity(Evaluate(trace.command, trace.size, trace.rules \cup {r}))
                    < Severity(trace.decision)
                => r.action = "allow" /\ trace.decision.code = "no rule"

(* The risk classifier has looked at every program of a command the filter *)
(* has not denied, by its bare name, behind every wrapper the parser can   *)
(* remove; except in code handed to a shell, which it does not take apart, *)
(* and in a command beyond its own limit: that one counts in bytes, so a   *)
(* wide command the filter may let through is not classified.              *)
RiskSeesWhatFilterSees ==
    /\ trace # NoTrace
    /\ trace.decision.verdict # "deny"
    /\ trace.size = "short"
    /\ ~HasCode(trace.command)
    => \A s \in Executed(trace.command) :
         Uncovered(s.text) => Bare(s.text) \in ClassifiedTexts(trace.command, trace.size)

=============================================================================
