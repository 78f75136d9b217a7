----------------------------- MODULE MCStreamMeter -----------------------------
(* StreamMeter for TLC: the kinds of lines each upstream sends.            *)
EXTENDS StreamMeter

Line(t, m, u) == [type |-> t, model |-> m, usage |-> u]
Usage(i, o) == [in |-> i, out |-> o]

ChatLines ==
  {Line("chunk", "a", Nil), Line("chunk", "b", Usage(1, 2)), Line("chunk", "", Usage(2, 0))}

MessageLines ==
  {Line("message_start", "a", Usage(1, 1)), Line("message_start", "", Nil),
   Line("message_delta", "", Usage(0, 2)), Line("message_delta", "", Usage(0, 0))}
=============================================================================
