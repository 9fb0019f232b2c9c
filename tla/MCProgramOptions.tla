-------------------------- MODULE MCProgramOptions ---------------------------
EXTENDS ProgramOptions

\* toggle<'h'>("help"), value<'c'>("count", count), and
\* value<'p'>(port, ignore_long<false>{}), which keeps the ignore_long<true>
\* that value<'p'>(port) puts first: it has no long name.
MCOptionList ==
    << ToggleLong("h", <<"help">>, <<>>),
       Value("c", <<"count">>, <<>>),
       ValueShort("p", <<[kind |-> "IgnoreLong", v |-> FALSE]>>) >>

\* One argument of each kind parse tells apart.
MCTokens ==
    { <<"-", "-">>, <<"-", "-", " ">>, <<"-", "-", "-">>,
      <<"-", "-", "count">>, <<"-", "-", "-", "count">>, <<"-", "-", "help">>, <<"-", "-", "bogus">>,
      <<"-", "c">>, <<"-", "h">>, <<"-", "p">>, <<"-", "q">>, <<"-", "c", "h">>, <<"-">>,
      <<"7">>, <<>> }

\* Every argv of up to three arguments.
MCArgvs == UNION {[1..n -> MCTokens] : n \in 0..3}

====
