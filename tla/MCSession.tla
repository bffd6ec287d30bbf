----------------------------- MODULE MCSession -----------------------------
EXTENDS Session

\* One command of every kind that matters, from the regCmd calls of the
\* packages: the mandatory part of each name and its length.
Command(names, least, lengths, type) ==
    [names |-> names, least |-> least, lengths |-> lengths, type |-> type]
MCLibrary ==
    {Command(<<"SET", "SYSTEM">>, <<2, 3>>, <<3, 6>>, "mod"),
     Command(<<"SET", "SAFE">>, <<2, 2>>, <<3, 4>>, "simulate"),
     Command(<<"CIRREAD">>, <<4>>, <<7>>, "network"),
     Command(<<"BCONSTRUCT">>, <<4>>, <<10>>, "bdd"),
     Command(<<"PINITIALSTATE">>, <<5>>, <<13>>, "prove"),
     Command(<<"DOFILE">>, <<2>>, <<6>>, "common"),
     Command(<<"QUIT">>, <<1>>, <<4>>, "common")}

Word(name, typed) == [name |-> name, typed |-> typed]
Line(words, options) == [words |-> words, options |-> options]
Set(options) == Line(<<Word("SET", 2), Word("SYSTEM", 3)>>, options)
Read(options) == Line(<<Word("CIRREAD", 7)>>, options)
Construct == Line(<<Word("BCONSTRUCT", 4)>>, <<>>)
Prove == Line(<<Word("PINITIALSTATE", 5)>>, <<>>)
TooShort == Line(<<Word("PINITIALSTATE", 4)>>, <<>>)
Run(options) == Line(<<Word("DOFILE", 6)>>, options)
Save == Line(<<Word("SAVE", 4)>>, <<>>)
Remark == Line(<<Word("//", 2)>>, <<>>)

Script(lines, newline) == [lines |-> lines, newline |-> newline]
Setup == Script(<<Remark, Read(<<"readable">>), Construct, Set(<<"vrf">>), Prove>>, TRUE)
ChainTo(f, newline) == Script(<<Construct, Run(<<f>>)>>, newline)
WithApp == Script(<<Set(<<"app">>), Construct, Save, Set(<<"vrf">>)>>, FALSE)

MCFiles == [setup |-> Setup, chain |-> ChainTo("setup", FALSE), app |-> WithApp]
AppFiles == [stays |-> Script(<<Set(<<"app">>), Construct>>, TRUE)]
MCMissing == {"missing"}
MCScripts == {"", "setup", "chain", "app"}
AppScripts == {"stays"}

MCTyped ==
    {Set(<<"vrf">>), Set(<<"setup">>), Set(<<"app">>), Set(<<"app", "setup">>), Set(<<"setup", "vrf">>),
     Set(<<"vrf", "app">>), Set(<<>>),
     Read(<<"readable">>), Read(<<"readable", "-Replace">>), Read(<<"-Replace">>), Read(<<>>),
     Construct, Prove, TooShort, Save, Remark,
     Run(<<"setup">>), Run(<<"chain">>), Run(<<"app">>), Run(<<"missing">>), Run(<<>>),
     Line(<<Word("QUIT", 1)>>, <<"-Force">>), Line(<<Word("QUIT", 4)>>, <<"no">>)}
AppTyped == {Prove}
=============================================================================
