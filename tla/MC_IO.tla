-------------------------------- MODULE MC_IO --------------------------------
(* One core with three devices: an RPC device that copies its arguments, a   *)
(* boot ROM of two ranges, and a clock.                                      *)
EXTENDS IOSystem

Image5 == <<100, 101, 102, 103, 104>>

Rd(dev, word, r) == [op |-> "read", dev |-> dev, word |-> word, reg |-> r]
Wr(dev, word, value) == [op |-> "write", dev |-> dev, word |-> word, value |-> value]
Wait(chan, r) == [op |-> "wait", chan |-> chan, reg |-> r]
Configure(chan, on) == [op |-> "configure", chan |-> chan, value |-> on]
Needs(r) == [op |-> "use", reg |-> r]
Until0(r) == [op |-> "poll", reg |-> r]

\* Two RPCs, the second started as soon as the first has been queued; the
\* arguments and the results straddle lines.
TwoCalls ==
    [script |-> <<
        <<Wr(RPCDev, 6, 3), Wr(RPCDev, 8, 3), Wr(RPCDev, 14, 7), Wr(RPCDev, 0, 1),
          Rd(RPCDev, 0, 1), Until0(1),
          Wr(RPCDev, 6, 0), Wr(RPCDev, 7, 2), Wr(RPCDev, 10, 4), Wr(RPCDev, 16, 12), Wr(RPCDev, 4, 2),
          Wr(RPCDev, 0, 1)>>,
        <<Wait(0, 2), Needs(2), Wait(0, 2), Needs(2)>> >>,
     enabled |-> {0}, ticks |-> FALSE, others |-> {}, boots |-> FALSE, preloaded |-> FALSE, ranges |-> <<>>, image |-> {},
     results |-> {[chan |-> 0, tag |-> 0, cells |-> {<<7, 3>>, <<8, 4>>, <<9, 5>>}],
                  [chan |-> 0, tag |-> 2, cells |-> {<<12, 4>>, <<13, 5>>}]}]

\* One RPC while the data cache of the core reads as well.
OneCall ==
    [TwoCalls EXCEPT
        !.script = << SubSeq(@[1], 1, 5), <<Wait(0, 2), Needs(2)>> >>,
        !.others = {4}]

\* The core boots from the ROM, reads two devices and then has a part of the
\* ROM copied by the ROM itself.
Boots ==
    [script |-> <<
        <<Rd(ROMDev, 4, 1), Rd(RPCDev, 64, 2), Rd(ROMDev, 0, 3)>>,
        <<Wr(ROMDev, 2, 1), Wr(ROMDev, 4, 6), Wr(ROMDev, 6, 1),
          Wr(ROMDev, 0, 1), Wait(0, 4), Needs(4)>> >>,
     enabled |-> {0}, ticks |-> FALSE, others |-> {}, boots |-> TRUE, preloaded |-> FALSE,
     ranges |-> <<[vaddr |-> 3, offset |-> 0, size |-> 3], [vaddr |-> 10, offset |-> 3, size |-> 2]>>,
     image |-> {<<3, 100>>, <<4, 101>>, <<5, 102>>, <<10, 103>>, <<11, 104>>}, results |-> {}]

\* The core boots from a preloaded ROM.  Two threads wait for the clock and for
\* a channel that is then disabled.
Interrupts ==
    [script |-> <<
        <<Wr(RTCDev, 2, 0), Wr(RTCDev, 3, 0), Wr(RTCDev, 1, 1),
          Wait(0, 1), Needs(1), Wait(0, 1), Needs(1),
          Wr(RTCDev, 1, 0), Configure(0, FALSE), Configure(1, FALSE)>>,
        <<Wait(1, 2), Needs(2), Rd(RTCDev, 1, 4)>> >>,
     enabled |-> {0, 1}, ticks |-> TRUE, others |-> {}, boots |-> TRUE, preloaded |-> TRUE,
     ranges |-> <<[vaddr |-> 3, offset |-> 0, size |-> 2]>>, image |-> {<<3, 100>>, <<4, 101>>}, results |-> {}]

\* A call with six lines of arguments, and a thread that reads the device
\* while they are fetched: the core's requests and its answers to the device can
\* come to wait for each other.
ReadsDuringFetch ==
    [TwoCalls EXCEPT
        !.script = << <<Wr(RPCDev, 6, 4), Wr(RPCDev, 7, 4), Wr(RPCDev, 8, 3), Wr(RPCDev, 10, 7), Wr(RPCDev, 0, 1),
                        Rd(RPCDev, 0, 1), Rd(RPCDev, 68, 2), Rd(RPCDev, 70, 3)>>,
                      <<Wait(0, 4), Needs(4)>> >>,
        !.results = {}]

MCWorkloads == <<TwoCalls, OneCall, Boots, Interrupts, ReadsDuringFetch>>
=============================================================================
