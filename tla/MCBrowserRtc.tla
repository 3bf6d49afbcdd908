---------------------------- MODULE MCBrowserRtc ----------------------------
EXTENDS BrowserRtc
=============================================================================
