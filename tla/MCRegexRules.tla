---------------------------- MODULE MCRegexRules ----------------------------
(* RegexRules with two small rules files, for TLC.                         *)
EXTENDS RegexRules, TLC

CONSTANTS up, down, bad, word

MCPatterns == {up, down, bad}
MCSymbols == {"l", "i", "o", ","}
MCWords == {"boss", "mail", "GetUp", "Get", "EchoDown", "GetDown", "EchoUp",
            "Any", "EchoAny", "Up", "Down", "Bad", word}
node(name, pattern, rep) == [name |-> name, pattern |-> pattern, rep |-> rep]
login == <<"l", "i">>
logout == <<"o">>

\* Like rules.xml: a rule that is switched on, one whose switch is not read,
\* and one that seqrel does not name.
Boss == [name |-> "boss", seqrel |-> login \o <<",">> \o logout,
         rules |-> <<
    [name |-> login, regex |-> <<node("GetUp", up, NoText), node("Get", bad, NoText)>>,
     switch |-> "on", echo |-> <<node("EchoDown", down, word)>>],
    [name |-> logout, regex |-> <<node("GetDown", down, NoText)>>,
     switch |-> "unset", echo |-> <<node("EchoUp", up, NoText)>>],
    [name |-> <<>>, regex |-> <<node("Any", up, NoText)>>, switch |-> "off",
     echo |-> <<node("EchoAny", up, NoText)>>]>>]
\* A rule of the same name in another system, empty names and a comma at the end.
Mail == [name |-> "mail", seqrel |-> <<",">> \o logout \o <<",">>,
         rules |-> <<
    [name |-> logout, regex |-> <<node("Up", up, word), node("Down", down, NoText), node("Bad", bad, word)>>,
     switch |-> "unset", echo |-> <<>>]>>]

MCFiles == << <<Boss>>, <<Mail, Boss>>, <<Mail>> >>
=============================================================================
