SPECIFICATION FairSpec
CONSTANTS
  Setters = {"sent_time_low", "lat_flag", "proto_type", "goe_count"}
  Getters = {"sent_time_low", "proto_type", "lat_pkt", "latency"}
  Values = {0, 3}
  Latency = 7
  CtrlDepth = 6
  MaxWords = 6
INVARIANTS ReadIsBarrier AnswersFramed WritesLand
PROPERTIES ImplementsRegFile
