------------------------ MODULE MCStatelessTelemetry ------------------------
EXTENDS StatelessTelemetry
=============================================================================
