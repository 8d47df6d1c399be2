------------------------------ MODULE MCDriver ------------------------------
EXTENDS Driver

Words2Numbers == [w \in {"0", "1", "2", "3", "5", "11001", "65536", "9", "-1"} |->
  CASE w = "0" -> 0 [] w = "1" -> 1 [] w = "2" -> 2 [] w = "3" -> 3 [] w = "5" -> 5
    [] w = "11001" -> 11001 [] w = "65536" -> 65536 [] w = "9" -> 99999 [] w = "-1" -> -1]

\* 5 is an id that m2 and m3 take for 1, 9 one out of range.
Started(w) == <<"da_proc", "--id", w, "--hosts", "hosts", "--output", "out", "config">>
GoodLines == {Started("1"), Started("5")}
AllLines == GoodLines \cup {Started("-1"), Started("9"), Started("x"),
                           SubSeq(Started("1"), 1, 7), SubSeq(Started("1"), 1, 2)}

TwoHosts == << <<"1", "localhost", "11001">>, <<"2", "localhost", "11001">> >>
GoodHosts == {TwoHosts}
AllHosts == {TwoHosts, SubSeq(TwoHosts, 2, 2), << <<"1", "localhost", "65536">> >>, << <<>> >>}

\* Host 1 is the receiver of m1 in the first, a sender in the second; m3 takes the second only.
GoodConfigs == {<< <<"1", "1">> >>, << <<"2", "2", "2">> >>}
AllConfigs == GoodConfigs \cup {<<>>, << <<"0", "1">> >>, << <<"1", "5">> >>, << <<"1">>, <<"x">> >>}
=============================================================================
