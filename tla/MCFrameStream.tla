--------------------------- MODULE MCFrameStream ---------------------------
(* Field values and events for model checking FrameStream with 16-valued bytes. *)
EXTENDS FrameStream

\* A delta that fits, the most negative one, and one that does not fit.
MCMice == {[type |-> "Rel", dx |-> -3, dy |-> 20], [type |-> "Rel", dx |-> 200, dy |-> -128],
           [type |-> "Wheel", dx |-> 0, dy |-> -1], [type |-> "Button", button |-> "X2", state |-> "Up"]}
MCPresses == {[type |-> "Key", hid |-> Hid["right"]["meta"], state |-> "Down", held |-> {Hid["right"]["meta"]}],
              [type |-> "Key", hid |-> PlainHid, state |-> "Up",
               held |-> {Hid["left"]["meta"], Hid["right"]["alt"], Hid["left"]["ctrl"]}]}

Text(n) == [i \in 1 .. n |-> i % Radix]
MCSamples ==
  [Hello |-> {<<1, Text(2)>>}, HelloAck |-> {<<1, 17, 255>>},
   ClipboardText |-> {<<3, Text(ChunkSize)>>, <<2, <<>>>>}, TakeControl |-> {<<40>>},
   ReleaseControl |-> {<<0>>}, Heartbeat |-> {<<4095>>}, EchoPing |-> {<<16>>}, EchoPong |-> {<<16>>},
   PairSpakeA |-> {<<Text(2)>>}, PairSpakeB |-> {<<Text(2)>>},
   PairCertExchange |-> {<<Text(3), Text(HmacLen)>>}, PairAccepted |-> {<<>>}]

\* The default of the code, and a swap of the two keys.
MCRemaps == {[cmd |-> "ctrl", option |-> "alt"], [cmd |-> "alt", option |-> "meta"]}
=============================================================================
