---------------------------- MODULE MCMsgBuffer -----------------------------
(* Model-checking instances of MsgBuffer.                                  *)
EXTENDS MsgBuffer
In(op, v) == [op |-> op, v |-> v]
MCInputs ==
    {In("byte", <<200>>), In("short", <<0, 255>>), In("long", <<1, 0, 10, 128>>), In("int64", <<1, 2, 3, 4, 5, 6, 7, 8>>),
     In("data", <<>>), In("data", <<37, 0, 200, 1, 2>>), In("string", <<97>>), In("line", <<97, 98>>), In("bit", <<0>>), In("bit", <<1>>),
     In("base64", <<200, 1, 130>>), In("base64", <<7, 255>>), In("base64", <<7>>), In("string", <<98, 37>>)}
      \cup {[op |-> "bits", v |-> <<5>>, n |-> 3], [op |-> "bits", v |-> <<341>>, n |-> 9], [op |-> "bits", v |-> <<2>>, n |-> 30]}
=============================================================================
