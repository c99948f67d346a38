----------------------------- MODULE RegexRules -----------------------------
(***************************************************************************)
(* regex_rules: the rules file describes systems, each with named rules    *)
(* and with seqrel, the order in which the results of its rules are to be  *)
(* told.  excute_regex_rules runs every pattern on a content through one   *)
(* Pcre object and returns the results in the order of _sort_nodes.        *)
(*                                                                         *)
(* A content is the set of the patterns that occur in it, a pattern        *)
(* matches with itself as the value, and text is a sequence of symbols.    *)
(***************************************************************************)
EXTENDS Naturals, Sequences, FiniteSets, SequencesExt

CONSTANTS Files,        \* the rules files, each a sequence of systems
          Symbols,      \* what the names of rules and seqrel are made of
          Words,        \* other names, and what rep or seg can say
          Patterns, NoText,
          Malformed,    \* the patterns pcre_compile rejects
          MaxSystems,   \* bound: no file is loaded when there are that many systems
          MaxCalls      \* bound: contents tried

ASSUME PatternAssumption == Malformed \subseteq Patterns /\ NoText \notin Patterns

Node == [name : Words, pattern : Patterns, rep : Words \cup {NoText}]
Rule(switches) == [name : Seq(Symbols), regex : Seq(Node), echo : Seq(Node), switch : switches]
System(switches) == [name : Words, seqrel : Seq(Symbols), rules : Seq(Rule(switches))]
ASSUME FilesAssumption ==
    \A f \in DOMAIN Files : Files[f] \in Seq(System({"on", "off", "unset"}))

VARIABLES
    sysNodes,       \* _sys_nodes
    pcre,           \* the compiled rules of _pcre
    regexResults,   \* _regex_results
    sortNodes,      \* _sort_nodes, the names only
    content,        \* history: the content of the last call
    reply,          \* history: what the last call returned
    asked           \* history: how many systems there were at each call

vars == <<sysNodes, pcre, regexResults, sortNodes, content, reply, asked>>

Init ==
    /\ sysNodes = <<>> /\ pcre = <<>>
    /\ regexResults = <<>> /\ sortNodes = <<>>
    /\ content = {} /\ reply = <<>> /\ asked = <<>>

(* Only an echoswi element with a switch attribute gives echo_switch a     *)
(* value: in any other rule it is whatever was in memory.                  *)
Unset(file) == UNION {{<<s, r>> : r \in {x \in DOMAIN file[s].rules :
                                           file[s].rules[x].switch = "unset"}} : s \in DOMAIN file}
LoadedRule(rule, garbage) ==
    [name |-> rule.name, regex |-> rule.regex, echo |-> rule.echo,
     switch |-> IF rule.switch = "unset" THEN garbage ELSE rule.switch]
LoadedSystem(sys, s, garbage) ==
    [name |-> sys.name, seqrel |-> sys.seqrel,
     rules |-> [r \in DOMAIN sys.rules |->
                   LoadedRule(sys.rules[r], IF sys.rules[r].switch = "unset"
                                            THEN garbage[<<s, r>>] ELSE "off")]]

(* The systems of another file are added to those already there.  A file   *)
(* that cannot be read changes nothing.                                    *)
OpenRulesXml(file) ==
    /\ \E garbage \in [Unset(file) -> {"on", "off"}] :
           sysNodes' = sysNodes \o [s \in DOMAIN file |-> LoadedSystem(file[s], s, garbage)]
    /\ UNCHANGED <<pcre, regexResults, sortNodes, content, reply, asked>>

(* The names in seqrel: what stands between the commas, an empty rest is   *)
(* no name.  The mutant forgets the last one.                              *)
Commas(text, i) == {n \in i..Len(text) : text[n] = ","}
MutantSeqRelation(text) ==
    LET names[i \in 1..(Len(text) + 1)] ==
            IF Commas(text, i) = {} THEN <<>>
            ELSE LET n == Min(Commas(text, i))
                 IN  <<SubSeq(text, i, n - 1)>> \o names[n + 1]
    IN  names[1]
SeqRelation(text) ==
    LET names[i \in 1..(Len(text) + 1)] ==
            IF i > Len(text) THEN <<>>
            ELSE IF Commas(text, i) = {} THEN <<SubSeq(text, i, Len(text))>>
            ELSE LET n == Min(Commas(text, i))
                 IN  <<SubSeq(text, i, n - 1)>> \o names[n + 1]
    IN  names[1]

MutantClearRules(compiled) == compiled
ClearRules(compiled) == <<>>

MutantAddRule(compiled, node) == Append(compiled, [name |-> node.name, pattern |-> node.pattern])
AddRule(compiled, node) ==
    IF node.pattern \in Malformed THEN compiled
    ELSE Append(compiled, [name |-> node.name, pattern |-> node.pattern])

(* The rules that match, with their names and what they matched.           *)
MatchAllRule(compiled, text) ==
    FlattenSeq([i \in DOMAIN compiled |->
                   IF compiled[i].pattern \in text THEN <<compiled[i]>> ELSE <<>>])

(* rep or seg, where a node has one, stands for what was matched.          *)
MatchNode(rule, node, type, match) ==
    [rule |-> rule.name, name |-> match.name, type |-> type,
     value |-> IF node.rep = NoText THEN match.pattern ELSE node.rep]

(* The nodes a call tries, in order: of each rule the regex nodes, and the *)
(* echo nodes if its switch is on.                                         *)
Tries(rule) ==
    [i \in DOMAIN rule.regex |-> [rule |-> rule, node |-> rule.regex[i], type |-> "regex"]]
    \o IF rule.switch = "on"
       THEN [i \in DOMAIN rule.echo |-> [rule |-> rule, node |-> rule.echo[i], type |-> "echo"]]
       ELSE <<>>
AllTries(systems) ==
    FlattenSeq([s \in DOMAIN systems |->
        FlattenSeq([r \in DOMAIN systems[s].rules |-> Tries(systems[s].rules[r])])])

NodeResults(try, compiled, text) ==
    LET matches == MatchAllRule(compiled, text)
    IN  [i \in DOMAIN matches |-> MatchNode(try.rule, try.node, try.type, matches[i])]

(* Results of one rule after another, in the order of the sort nodes.      *)
Told(names, results) ==
    FlattenSeq([i \in DOMAIN names |->
        FlattenSeq([k \in DOMAIN results |->
            IF results[k].rule = names[i] THEN <<results[k]>> ELSE <<>>])])

(* excute_regex_rules: the results are fresh, the sort nodes are not, and  *)
(* what is compiled for one node is what the next one begins with.         *)
ExcuteRegexRules(text) ==
    /\ LET tries == AllTries(sysNodes)
           compiled[i \in 0..Len(tries)] ==
               IF i = 0 THEN pcre ELSE AddRule(ClearRules(compiled[i - 1]), tries[i].node)
       IN  /\ pcre' = compiled[Len(tries)]
           /\ regexResults' =
                  FlattenSeq([i \in DOMAIN tries |-> NodeResults(tries[i], compiled[i], text)])
    /\ sortNodes' = sortNodes \o
           FlattenSeq([s \in DOMAIN sysNodes |-> SeqRelation(sysNodes[s].seqrel)])
    /\ reply' = Told(sortNodes', regexResults')
    /\ content' = text
    /\ asked' = Append(asked, Len(sysNodes))
    /\ UNCHANGED sysNodes

Next ==
    \/ \E f \in DOMAIN Files : Len(sysNodes) < MaxSystems /\ OpenRulesXml(Files[f])
    \/ \E text \in SUBSET Patterns : Len(asked) < MaxCalls /\ ExcuteRegexRules(text)

Spec == Init /\ [][Next]_vars
-----------------------------------------------------------------------------
(* Every variable has its type; only patterns that compile are in pcre.    *)
TypeOK ==
    /\ \A s \in DOMAIN sysNodes : \A r \in DOMAIN sysNodes[s].rules :
           sysNodes[s].rules[r].switch \in {"on", "off"}
    /\ \A i \in DOMAIN pcre : pcre[i].pattern \in Patterns \ Malformed
    /\ \A i \in DOMAIN regexResults :
           /\ regexResults[i].type \in {"regex", "echo"}
           /\ regexResults[i].value # NoText
    /\ content \subseteq Patterns

(* A node of the rules that occurs in the content, and its result.         *)
Hits(try) == try.node.pattern \in content \ Malformed
Result(try) == [rule |-> try.rule.name, name |-> try.node.name, type |-> try.type,
                value |-> IF try.node.rep = NoText THEN try.node.pattern ELSE try.node.rep]

(* All calls and all patterns share one Pcre object and one list of        *)
(* results; still each result is that of a node of its own rule that       *)
(* occurs in this content, echo nodes only where the switch is on.         *)
ResultsAttributed ==
    \A i \in DOMAIN regexResults :
        \E s \in DOMAIN sysNodes : \E r \in DOMAIN sysNodes[s].rules :
            \E try \in ToSet(Tries(sysNodes[s].rules[r])) :
                Hits(try) /\ regexResults[i] = Result(try)

(* What the n first systems ask for: the names begin at the start of       *)
(* seqrel and after each comma, and end before the next one.               *)
Begins(text) == {i \in 1..Len(text) : i = 1 \/ text[i - 1] = ","}
EndOfName(text, i) == Min(Commas(text, i) \cup {Len(text) + 1}) - 1
Nth(S, k) == CHOOSE i \in S : Cardinality({j \in S : j <= i}) = k
NamesIn(text) ==
    [k \in 1..Cardinality(Begins(text)) |->
        LET i == Nth(Begins(text), k) IN SubSeq(text, i, EndOfName(text, i))]
Declared(n) == FlattenSeq([s \in 1..n |-> NamesIn(sysNodes[s].seqrel)])

(* What a rule finds: the nodes of all systems that carry its name.        *)
Found(systems, name) ==
    LET tries == AllTries(systems)
    IN  FlattenSeq([k \in DOMAIN tries |->
            IF tries[k].rule.name = name /\ Hits(tries[k]) THEN <<Result(tries[k])>> ELSE <<>>])
Answer(names) ==
    FlattenSeq([i \in DOMAIN names |-> Found(SubSeq(sysNodes, 1, Last(asked)), names[i])])

(* Nothing a rule of seqrel finds is missing from the reply, in the order  *)
(* seqrel gives.  The sort nodes of earlier calls are still there: the     *)
(* reply to the n-th call says everything n times, and nothing else.       *)
ReplyComplete ==
    reply = FlattenSeq([k \in DOMAIN asked |-> Answer(Declared(asked[k]))])
=============================================================================
