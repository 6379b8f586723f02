---------------------------- MODULE MCDeviceStore ----------------------------
(* Instances of DeviceStore for TLC.                                        *)
EXTENDS DeviceStore

CONSTANTS d1, d2, s1, s2, t1, c1, i1, i2

TwoDevices == {d1, d2}
OneDevice == {d1}
NoSessions == {}
TwoSessions == {s1, s2}
NobodysSessions == [s \in NoSessions |-> d1]
SameDevice == [s \in TwoSessions |-> d1]
OneThread == {t1}
NoThreads == {}
OneCode == {c1}
TwoIds == {i1, i2}
=============================================================================
