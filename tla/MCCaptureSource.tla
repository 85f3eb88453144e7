--------------------------- MODULE MCCaptureSource ---------------------------
EXTENDS CaptureSource

\* Windows has the more settings, and gets the fewer adapters.
MCFitted == [windows |-> {"eth", "wlan"}, linux |-> {"eth", "wlan", "docker"}]

\* The scores of interface_score for a wired, a wireless and a virtual name.
MCBonus == [a \in Adapters |-> CASE a = "eth" -> 20 [] a = "wlan" -> 15 [] OTHER -> -100]
=============================================================================
