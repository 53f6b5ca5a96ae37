------------------------------- MODULE MCJdwp -------------------------------
EXTENDS Jdwp

\* Lengths on both sides of every bound that detect_jdwp_protocol checks, for IP
\* headers of 20 and of 24 bytes and for one that claims to be shorter.
Lengths == {EthLen, EthLen + 4 * 5, DataStart([ihl |-> 5]) + MaxTcpData - 1,
            DataStart([ihl |-> 5]) + MaxTcpData, DataStart([ihl |-> 6]) + MaxTcpData}

\* Empty strings, with ports below 256, and strings that do not end in the data.
Arrivals == {p \in [len : Lengths, version : {4, 6}, ihl : {4, 5, 6}, high : {0, 2},
                    nul : {0, MaxTcpData}] : p.high = 0 <=> p.nul = 0}

\* The source's sizes make room for 1927 reports.
ASSUME (512 * 1024 - 1) \div RecordBytes = 1927
=============================================================================
