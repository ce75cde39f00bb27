---------------------------- MODULE MCMqttLink -------------------------------
(***************************************************************************)
(* MqttLink for TLC: a channel of two requests, and cycles that publish a  *)
(* device with two points and a device with one, or that one alone.        *)
(***************************************************************************)
EXTENDS MqttLink

MCBatches == {<<2, 1>>, <<1>>}

\* For the run about the rejection's text a single sample is enough.
OneSample == {<<1>>}
=============================================================================
