---------------------------- MODULE MCMqttSession ----------------------------
EXTENDS MqttSession

CONSTANTS f1, f2

MCTopics == {f1, f2}
=============================================================================
