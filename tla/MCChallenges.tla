--------------------------- MODULE MCChallenges ----------------------------
(* A complete pair, as text files and as PDF and Word files, and lines that *)
(* repeat, contradict, refer, hide or misplace what is stated in them.      *)
EXTENDS Challenges

MCFields == {"consignee", "notify_party", "port_of_loading", "container_count", "gross_weight_kg"}
MCNumeral == ("1" :> <<1000, 0>>) @@ ("2" :> <<2000, 0>>) @@ ("3" :> <<3000, 0>>) @@ ("4" :> <<4000, 0>>)
             @@ ("1500" :> <<1500000, 0>>) @@ ("1.5" :> <<1500, 1>>)
MCFold == ("PORT" :> "port") @@ ("KLANG" :> "klang")
MCAddresses == {"street 5"}

Of(field, words) == [field |-> field, words |-> words, place |-> "body"]
Written(words) == Of(NoField, words)

Pages(title) ==
  <<Written(<<title>>), Of("consignee", <<"acme">>), Of("notify_party", <<"beta">>),
    Of("port_of_loading", <<"port", "klang">>), Of("container_count", <<"2", "x 20GP">>),
    Of("gross_weight_kg", <<"1500", "kg">>)>>

File(name, format, lines) == [name |-> name, format |-> format, broken |-> FALSE, lines |-> lines]

\* The labels of the consignee and of the containers stand above their values.
Stacked(title) ==
  LET p == Pages(title)
  IN <<p[1], Of("consignee", <<>>), Written(<<"acme">>), p[3], p[4],
       Of("container_count", <<>>), Written(<<"2", "x 20GP">>), p[6]>>

MCBases ==
  {<<File("x_si", f[1], Pages("shipping instruction")), File("bl_draft", f[2], Pages("bill of lading"))>>
     : f \in {<<"txt", "txt">>, <<"pdf", "docx">>}}
  \cup {<<File("x_si", "txt", Stacked("shipping instruction")), File("bl_draft", "txt", Stacked("bill of lading"))>>}

MCLines ==
  {Of("consignee", w) : w \in {<<>>, <<"beta">>, <<"acme", "asia", "street 5">>, <<"acme", Bar, "street 5">>}}
  \cup {Of("notify_party", w) : w \in {<<"same as consignee">>, <<"acme">>}}
  \cup {Of("gross_weight_kg", <<"1.5", "t">>)}
  \cup {Of("container_count", w) : w \in {<<"3", "x 20GP">>, <<"2", "x 20GP">>, <<"2", "x 20GP", "1", "x 20GP">>}}
  \cup {Written(w) : w \in {<<"(m)", Bar, "acme">>, <<"(m)", Bar, "beta">>, <<"bill of lading">>, <<"commercial invoice">>}}

MCExtra ==
  {File("scan", "txt", <<Written(<<"commercial invoice">>)>>), File("bl_draft", "txt", <<>>),
   File("x_si", "txt", Pages("shipping instruction"))}
=============================================================================
