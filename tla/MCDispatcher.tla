----------------------------- MODULE MCDispatcher -----------------------------
EXTENDS Dispatcher
===============================================================================
