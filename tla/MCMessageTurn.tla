----------------------------- MODULE MCMessageTurn -----------------------------
(* Texts of one to six words; a file of one long paragraph between two short *)
(* ones; a model that answers within and outside its schema.                 *)
EXTENDS MessageTurn

Item(i, t, b) == [is |-> "message", id |-> i, type |-> t, from |-> TRUE, body |-> b, more |-> <<>>,
                  at |-> "past"]
Junk      == [Item("none", "none", <<>>) EXCEPT !.is = "junk"]
Status(s) == [Item("m0", s, <<>>) EXCEPT !.is = "status"]
Error(c)  == [Item("none", c, <<>>) EXCEPT !.is = "error"]
Words(s)  == [i \in DOMAIN s |-> <<s[i]>>]

MCBot == [stop   |-> {Words(<<"stop">>), Words(<<"opt", "out">>)},
          start  |-> {Words(<<"start">>), Words(<<"yes">>)},
          person |-> {Words(<<"human">>)}]
MCInjections == {Words(<<"jailbreak">>)}

Stop    == Item("m1", "text", Words(<<"stop">>))
Dont    == Item("m2", "text", << <<"don", "t">>, <<"stop">> >>)
LongNo  == Item("m3", "text", Words(<<"when", "does", "the", "bus", "stop", "there">>))
Start   == Item("m4", "text", Words(<<"yes">>))
Both    == Item("m5", "text", Words(<<"start", "or", "stop">>))
Person  == Item("m6", "text", Words(<<"a", "human", "or", "any", "of", "you">>))
Price   == Item("m7", "text", Words(<<"price">>))
Row     == [Item("m8", "list_reply", <<>>) EXCEPT !.more = Words(<<"price">>)]
Attack  == Item("m9", "text", Words(<<"jailbreak">>))
Picture == Item("m10", "image", <<>>)
Poll    == Item("m11", "poll", <<>>)
Spaces  == Item("m12", "image", White)
Smile   == Item("none", "reaction", << <<>> >>)
Late(i)   == [i EXCEPT !.at = "late"]
Future(i) == [i EXCEPT !.at = "future"]
Beyond    == [Price EXCEPT !.at = "beyond"]
NoSender  == [Price EXCEPT !.from = FALSE]

Posts(items) == [signed |-> TRUE, items |-> items]
MCPayloads ==
  {Posts(<<i>>) : i \in {Stop, Dont, LongNo, Start, Both, Person, Attack, Picture, Spaces,
                         Poll, Row, NoSender, Late(Stop), Late(Price), Future(Start)}}
    \cup {Posts(<<Junk, Status("warning"), Price, Error("131000")>>),
          Posts(<<Beyond, Stop, Status("odd")>>),
          Posts(<<Price, Error("superscript")>>),
          [Posts(<<Stop>>) EXCEPT !.signed = FALSE]}

MCFacts == {[id |-> <<"faq">>, size |-> 9], [id |-> <<"empty">>, size |-> 0]}
MCFiles == {[stem |-> "care", readable |-> TRUE, text |-> << <<1>>, <<4, 1>>, <<1>> >>],
            [stem |-> "big", readable |-> FALSE, text |-> << <<4>> >>]}

MCTexts ==
  {f.text : f \in MCFiles} \cup
  UNION {[1..n -> {<<s>> : s \in {1, 4, 5, 7}} \cup ({1, 2, 5, 7} \X {1, 2, 4})] : n \in 1..3}

Of(i, c, p, f, t, s) == Analysis(i, c, p, f, t, s)
MCRawAnswers ==
  {Of(i, c, FALSE, "none", "answer", s) :
     i \in {"PRICING_INQUIRY", "SUPPORT_REQUEST", "ORDER_STATUS"}, c \in {0, 1, 4},
     s \in {{}, {<<"made up">>}, {<<"faq">>, <<"made up">>}}}
    \cup {Of(i, 3, p, f, "empty", {}) :
            i \in {"GREETING", "OPT_IN", "OPT_OUT", "COMPLAINT", "CANCELLATION",
                   "HUMAN_AGENT_REQUEST"}, p \in BOOLEAN, f \in {"none", "ABUSE"}}
    \cup {Of("GREETING", 3, FALSE, "none", "leak", {}), Of("invented", 4, FALSE, "none", "answer", {}),
          Of("COMPLAINT", -1, FALSE, "none", "answer", {})}
    \cup {Of("UNKNOWN", 3, p, f, "answer", {}) : p \in BOOLEAN, f \in {"odd", "MEDICAL_ADVICE"}}

MCGuesses ==
  [intent : {"PRICING_INQUIRY", "ORDER_STATUS", "OPT_OUT", "COMPLAINT", "UNKNOWN"},
   flag : {"none", "LEGAL_ADVICE"}]

(* Each way an item may be read, in every batch of up to four.             *)
MCBatches ==
  UNION {[1..n -> {Junk, Price, Smile, Beyond, Status("warning"), Status("sent"), Status("odd"),
                   Error("superscript")}] : n \in 0..4}
================================================================================
