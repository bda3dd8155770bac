------------------------------ MODULE MCWebServer ------------------------------
EXTENDS WebServer
=============================================================================
